---- MODULE Spec2Model ----
(***************************************************************************)
(* Model of the audit-automate capture / analyse / reconcile pipeline.     *)
(*                                                                         *)
(*   main.py                    capture phase: numbers the links and names *)
(*                              the artifacts link{i}_{retailer}           *)
(*   core/gemini_processor.py   analysis formatter: LLM reply -> 32 lines  *)
(*   core/csv_processor.py      record reconciler: analysis files -> CSV   *)
(*   core/screenshot_manager.py the chain of screenshot methods            *)
(*   retailers/homedepot.py,    the search for the product details section *)
(*   details_finder.py                                                     *)
(*                                                                         *)
(* Text is a sequence of tokens.  A token is a field marker "**name:**",   *)
(* a run of ordinary characters, or one whitespace character.  Files are   *)
(* NoFile or File(content).                                                *)
(***************************************************************************)
EXTENDS Integers, Sequences, FiniteSets, TLC

VARIABLES
    linksTxt,            \* the file named links.txt in the working directory
    otherTxt,            \* a second link list, given with --input-file
    inputFile,           \* args.input_file of the current invocation
    artifacts,           \* output folder: link{i}_{retailer}.png/.txt -> URL captured into it
    analysis,            \* output folder: link{i}_{retailer}_analysis.txt -> text
    listing,             \* order in which os.listdir returns the retailers of one index
    csvFile,             \* audit_results.csv
    bakFile,             \* audit_results.csv.bak
    pc,                  \* position inside process_all_analyses
    url_map,             \* CsvProcessor.url_map
    existing_data,       \* CsvProcessor.existing_data
    url_to_row_index,    \* CsvProcessor.url_to_row_index
    files_to_process,    \* local of process_all_analyses
    processed_files_count,
    selected_indices,    \* argument of the current invocation ({} = no selection)
    faults,              \* I/O operations that raise in the current run
    result,              \* return value of the last process_all_analyses
    runs,                \* number of reconcile runs started
    faultyRuns,          \* number of them in which an I/O operation raises
    phases,              \* number of capture / analysis phases run
    hist,                \* history of the current and the previous run (read by the properties only)
    report,              \* reporting_utils.report of the current invocation
    clock,               \* datetime.now(), in whole seconds
    snapshots,           \* audit_report folder: snapshot file name -> table
    sessions,            \* browser sessions on which quit() has not been called
    cap,                 \* locals of the capture loop and of capture_product_data
    shot,                \* locals of take_full_page_screenshot and the image file it writes
    finder,              \* locals of _find_and_expand_details and the page it looks at
    trail                \* what the last phase did (read by the properties only)

vars == <<linksTxt, otherTxt, inputFile, artifacts, analysis, listing, csvFile, bakFile,
          pc, url_map, existing_data, url_to_row_index, files_to_process,
          processed_files_count, selected_indices, faults, result, runs, faultyRuns,
          phases, hist, report, clock, snapshots, sessions, cap, shot, finder, trail>>

fileVars == <<linksTxt, otherTxt>>
runVars  == <<pc, url_map, existing_data, url_to_row_index, files_to_process,
              processed_files_count, faults, result, runs, faultyRuns, hist>>
snapVars    == <<clock, snapshots>>
browserVars == <<shot, finder>>
captureVars == <<sessions, cap, browserVars>>

---------------------------------------------------------------------------
(* Bounds *)
MaxRuns       == 2      \* reconcile runs in one behaviour
MaxFaultyRuns == 1      \* of which runs in which an I/O operation raises
MaxPhases     == 3      \* capture and analysis phases in one behaviour
MaxClock      == 1      \* clock seconds that pass in one behaviour
MaxCaptures   == 1      \* capture invocations followed step by step in one behaviour
MaxRetries    == 2      \* largest --retries given to a capture invocation
MaxCalls      == 3      \* calls on the report followed one by one in one behaviour

---------------------------------------------------------------------------
(* Text *)
Mark(n)  == [k |-> "mark",  v |-> n]    \* **n:** , n made of [a-zA-Z0-9\s+?#()]
XMark(n) == [k |-> "xmark", v |-> n]    \* **n:** , n with a character outside that class
Text(s)  == [k |-> "text",  v |-> s]
NL       == [k |-> "ws",    v |-> "\n"]
SP       == [k |-> "ws",    v |-> " "]

NoFile     == <<>>
File(c)    == <<c>>
Exists(f)  == f # NoFile
Content(f) == f[1]

RECURSIVE LStrip(_)
LStrip(s) == IF s # <<>> /\ Head(s).k = "ws" THEN LStrip(Tail(s)) ELSE s

RECURSIVE RStrip(_)
RStrip(s) == IF s # <<>> /\ s[Len(s)].k = "ws" THEN RStrip(SubSeq(s, 1, Len(s) - 1)) ELSE s

\* str.strip()
Strip(s) == RStrip(LStrip(s))

\* str.count('\n') + 1
LineCount(s) == Cardinality({i \in 1..Len(s) : s[i] = NL}) + 1

\* the lines of a text: str.split('\n')
RECURSIVE Lines(_)
Lines(s) ==
    IF \E i \in 1..Len(s) : s[i] = NL
    THEN LET i == CHOOSE j \in 1..Len(s) : s[j] = NL /\ \A h \in 1..(j - 1) : s[h] # NL
         IN  <<SubSeq(s, 1, i - 1)>> \o Lines(SubSeq(s, i + 1, Len(s)))
    ELSE <<s>>

\* "\n".join(lines)
RECURSIVE Join(_)
Join(ls) ==
    IF ls = <<>> THEN <<>>
    ELSE IF Len(ls) = 1 THEN ls[1]
    ELSE ls[1] \o <<NL>> \o Join(Tail(ls))

---------------------------------------------------------------------------
(* Schema *)
NumBullets == 9

RECURSIVE BulletFields(_)
BulletFields(n) ==
    IF n = 0 THEN <<>>
    ELSE BulletFields(n - 1) \o
         << "Bullet Point " \o ToString(n) \o " Actual",
            "Bullet Point " \o ToString(n) \o " Accuracy?" >>

expected_fields ==
    << "Link", "Category", "SKU", "Retailer",
       "Images Count", "Images Visible Issues?",
       "Video Count", "Video Visible Issues?",
       "A+ Content Type", "A+ Content Accuracy?",
       "Title Actual", "Title Accuracy?" >>
    \o BulletFields(NumBullets)
    \o << "Description Actual", "Description Accuracy?" >>

Fields == {expected_fields[i] : i \in 1..Len(expected_fields)}

\* ' '.join(name.split()): runs of whitespace inside a field name become one blank
WsNorm(n) ==
    CASE n = "title  actual" -> "title actual"
      [] OTHER -> n

\* re.sub(r'\s+', ' ', n).lower(), named by the schema field it spells when there is one
Lower(n) ==
    CASE WsNorm(n) = "title actual"  -> "Title Actual"
      [] WsNorm(n) = "TITLE ACTUAL"  -> "Title Actual"
      [] WsNorm(n) = "link"          -> "Link"
      [] WsNorm(n) = "category"      -> "Category"
      [] OTHER -> WsNorm(n)

---------------------------------------------------------------------------
(* URLs and link lists *)
UrlX     == "https://www.homedepot.com/p/X"
UrlY     == "https://www.lowes.com/pd/Y"
UrlWrong == "https://www.homedepot.com/p/WRONG"     \* a URL that only an LLM reply mentions
UrlZ     == "https://www.example.com/item/Z"        \* a URL of no known retailer
UrlRef   == "https://www.example.com/item/Z?ref=homedepot.com"    \* a retailer named in the query
UrlYRef  == "https://www.lowes.com/pd/Y?from=homedepot.com"

\* the needle is a substring of the lower-cased URL
Contains(url, needle) ==
    \/ needle = "homedepot.com" /\ url \in {UrlX, UrlWrong, UrlRef, UrlYRef}
    \/ needle = "lowes.com"     /\ url \in {UrlY, UrlYRef}

\* variant: a URL of no known retailer is taken for a Home Depot page
detect_retailer_guess(url) ==
    IF Contains(url, "lowes.com") THEN "lowes" ELSE "homedepot"

detect_retailer(url) ==
    IF Contains(url, "homedepot.com") THEN "homedepot"
    ELSE IF Contains(url, "lowes.com") THEN "lowes"
    ELSE "None"

Retailers == {"homedepot", "lowes"}

\* "Home Depot" if name.lower() == "homedepot" else name.capitalize()
retailer_display_name(retailer_name) ==
    CASE retailer_name = "homedepot" -> "Home Depot"
      [] retailer_name = "lowes"     -> "Lowes"
      [] OTHER                       -> retailer_name

\* {f"link{i}": url} for the non-blank lines, i the 1-based line number
LoadUrls(file) ==
    IF ~Exists(file) THEN <<>>
    ELSE LET lines == Content(file)
         IN  [i \in {j \in 1..Len(lines) : lines[j] # ""} |-> lines[i]]

\* GeminiProcessor._load_urls: always the file named links.txt
GeminiLoadUrls(links, input) == LoadUrls(links)

\* CsvProcessor._load_urls_from_file: the links_file it was constructed with
_load_urls_from_file(links_file) == LoadUrls(links_file)

\* links = [line.strip() for line in f if line.strip()]
RECURSIVE NonBlank(_)
NonBlank(lines) ==
    IF lines = <<>> THEN <<>>
    ELSE IF Head(lines) = "" THEN NonBlank(Tail(lines))
    ELSE <<Head(lines)>> \o NonBlank(Tail(lines))

---------------------------------------------------------------------------
(* The marker pattern shared by the formatter and the reconciler:          *)
(*   \*\*(.*?):\*\*\s*(.*?)(?=\*\*[a-zA-Z0-9\s\+\?\#\(\)]+:\*\*|\Z)        *)
(* A match starts at a marker; its value runs to the next marker whose     *)
(* name lies in the look-ahead class, or to the end of the text.           *)
\* where the matches start: every marker of the class, and a marker outside the class
\* when no match is open, which is the case only before the first match
MatchStarts(toks) ==
    {i \in 1..Len(toks) :
        \/ toks[i].k = "mark"
        \/ toks[i].k = "xmark" /\ \A j \in 1..(i - 1) : toks[j].k \notin {"mark", "xmark"}}

\* the end of the value of the match starting at p: the next marker of the class, or
\* the end of the text
ValueEnd(toks, p) ==
    CHOOSE q \in (p + 1)..(Len(toks) + 1) :
        /\ q = Len(toks) + 1 \/ toks[q].k = "mark"
        /\ \A r \in (p + 1)..(q - 1) : toks[r].k # "mark"

\* pattern.findall(text): the (name, value) pairs, each at the position where it starts
FindAllAt(toks, starts) ==
    [p \in starts |->
        [name |-> toks[p].v, value |-> SubSeq(toks, p + 1, ValueEnd(toks, p) - 1)]]

FindAll(toks) == FindAllAt(toks, MatchStarts(toks))

Min(S) == CHOOSE i \in S : \A j \in S : i <= j
Max(S) == CHOOSE i \in S : \A j \in S : i >= j

\* field_name.strip(), ' '.join(field_name.split()), field_value.strip(); key is the
\* name as the case-insensitive comparison sees it
Normalized(matches) ==
    [p \in DOMAIN matches |->
        [name  |-> WsNorm(matches[p].name),
         key   |-> Lower(matches[p].name),
         value |-> Strip(matches[p].value)]]

\* A dict keeps a key at the place of its first insertion and the value of its last:
\* the entry of name n is at the first match named n and holds the value of the last one.
DictOf(ms) ==
    [p \in {q \in DOMAIN ms : \A r \in DOMAIN ms : r < q => ms[r].name # ms[q].name} |->
        [name  |-> ms[p].name,
         key   |-> ms[p].key,
         value |-> ms[Max({r \in DOMAIN ms : ms[r].name = ms[p].name})].value]]

\* for match_item in matches: found[normalized_name] = field_value
FoundValues(matches) == DictOf(Normalized(matches))

\* the entries whose name equals the field, ignoring case
Hits(d, key) == {p \in DOMAIN d : d[p].key = key}

\* the first entry whose name equals the field, ignoring case; "" when there is none
FirstHit(d, hits) == IF hits = {} THEN <<>> ELSE d[Min(hits)].value

FieldValue(d, field) == FirstHit(d, Hits(d, Lower(field)))

FieldFound(d, field) == Hits(d, Lower(field)) # {}

---------------------------------------------------------------------------
(* Analysis formatter (core/gemini_processor.py) *)

\* f"**{field}:** {value}"
FieldLine(field, value) == <<Mark(field), SP>> \o value

FormatLinkValue(umap, idx) == IF idx \in DOMAIN umap THEN <<Text(umap[idx])>> ELSE <<>>

\* variant: the Retailer of the reply is kept when the reply has one
FormattedLinesReplyRetailer(d, id, umap) ==
    [i \in 1..Len(expected_fields) |->
        FieldLine(expected_fields[i],
                  IF expected_fields[i] = "Link" THEN FormatLinkValue(umap, id.idx)
                  ELSE IF expected_fields[i] = "Retailer" /\ ~FieldFound(d, "Retailer")
                       THEN <<Text(retailer_display_name(id.retailer))>>
                  ELSE FieldValue(d, expected_fields[i]))]

\* lines 108-119: one line per schema field, in schema order
FormattedLines(d, id, umap) ==
    [i \in 1..Len(expected_fields) |->
        FieldLine(expected_fields[i],
                  IF expected_fields[i] = "Link" THEN FormatLinkValue(umap, id.idx)
                  ELSE IF expected_fields[i] = "Retailer"
                       THEN <<Text(retailer_display_name(id.retailer))>>
                  ELSE FieldValue(d, expected_fields[i]))]

_format_direct_response(response_text, id, umap) ==
    Join(FormattedLines(FoundValues(FindAll(response_text)), id, umap))

_create_fallback_response(id, error_msg, umap) ==
    LET value(field) ==
            IF field = "Link" THEN FormatLinkValue(umap, id.idx)
            ELSE IF field = "Retailer" THEN <<Text(retailer_display_name(id.retailer))>>
            ELSE IF field = "Description Actual"
                 THEN <<Text("ERROR PROCESSING:"), SP>> \o error_msg
            ELSE <<>>
    IN  Join([i \in 1..Len(expected_fields) |->
                 FieldLine(expected_fields[i], value(expected_fields[i]))])

\* what the LLM call gives: a reply text, or an exception with a message
Reply(text)   == [ok |-> TRUE,  text |-> text]
Raises(msg)   == [ok |-> FALSE, text |-> msg]

process_product(outcome, id, umap) ==
    IF outcome.ok
    THEN _format_direct_response(outcome.text, id, umap)
    ELSE _create_fallback_response(
             id, <<Text("Error processing with Gemini API:"), SP>> \o outcome.text, umap)

---------------------------------------------------------------------------
(* Reconciler: parsing one analysis file (core/csv_processor.py) *)

EmptyRecord == [f \in Fields |-> <<>>]

\* lines 117-133: every schema field from the pairs found, Link from url_map when it has one
ParsedData(d, id, umap) ==
    [f \in Fields |->
        IF f = "Link" /\ id.idx \in DOMAIN umap THEN <<Text(umap[id.idx])>>
        ELSE FieldValue(d, f)]

_parse_analysis_file(content, id, umap) ==
    ParsedData(FoundValues(FindAll(content)), id, umap)

\* the except branch: an empty record with Link and Retailer from the file name
ParseFallback(id, umap) ==
    [EmptyRecord EXCEPT
        !["Link"]     = IF id.idx \in DOMAIN umap THEN <<Text(umap[id.idx])>> ELSE <<>>,
        !["Retailer"] = <<Text(retailer_display_name(id.retailer))>>]

---------------------------------------------------------------------------
(* Capture phase numbering (main.py) *)

\* for i, url in enumerate(links, 1): product_id = f"link{i}_{retailer}"
CaptureIndex(lines, sel) ==
    LET links == NonBlank(lines)
    IN  {i \in 1..Len(links) :
            /\ (sel = {} \/ i \in sel)
            /\ detect_retailer(links[i]) # "None"}

CaptureIds(lines, sel) ==
    LET links == NonBlank(lines)
    IN  {[idx |-> i, retailer |-> detect_retailer(links[i])] : i \in CaptureIndex(lines, sel)}

\* the artifacts one capture phase writes: id -> the URL captured into it
Captured(lines, sel) ==
    LET links == NonBlank(lines)
    IN  [id \in CaptureIds(lines, sel) |-> links[id.idx]]

\* g overrides f where both are defined
Merge(f, g) ==
    [x \in DOMAIN f \cup DOMAIN g |-> IF x \in DOMAIN g THEN g[x] ELSE f[x]]

\* the k-th smallest member of a set of numbers
Nth(S, k) == CHOOSE i \in S : Cardinality({j \in S : j < i}) = k - 1

\* main.py 89-101: the targets of one capture invocation in the order of the loop, each
\* under the key the report gets for it: link{i}_{retailer}, or link{i}_unknown
CaptureTargets(lines, sel) ==
    LET links == NonBlank(lines)
        idxs  == {i \in 1..Len(links) : sel = {} \/ i \in sel}
    IN  [k \in 1..Cardinality(idxs) |->
            [idx      |-> Nth(idxs, k),
             retailer |-> IF detect_retailer(links[Nth(idxs, k)]) = "None" THEN "unknown"
                          ELSE detect_retailer(links[Nth(idxs, k)])]]

---------------------------------------------------------------------------
(* Run report (reporting_utils.py) *)

\* a report key that is not a product: a step name such as "CSV Write Error"
StepKey(name) == [idx |-> 0, retailer |-> name]

\* an error message: its fixed wording, the attempt it is from and what raised
Msg(text, at, cause) == [text |-> text, at |-> at, cause |-> cause]
NoMsg == Msg("", 0, "")

\* product_status, status_details and error_logs of one key
NoEntry == [status |-> "", details |-> "", error |-> NoMsg]
EntryOf(r, k) == IF k \in DOMAIN r THEN r[k] ELSE NoEntry

pass_product(r, k, details) ==
    Merge(r, [x \in {k} |->
                 [EntryOf(r, k) EXCEPT !.status  = "Passed",
                                       !.details = IF details # "" THEN details ELSE @]])

fail_product(r, k, error_message) ==
    Merge(r, [x \in {k} |->
                 [EntryOf(r, k) EXCEPT !.status = "Failed", !.error = error_message]])

\* main.py 96-144 for every target: Failed for an unknown retailer and for a target
\* whose every attempt fails, Passed otherwise
RECURSIVE CaptureReport(_, _, _)
CaptureReport(r, targets, failed) ==
    IF targets = <<>> THEN r
    ELSE CaptureReport(
             IF Head(targets).retailer = "unknown"
             THEN fail_product(r, Head(targets),
                               Msg("Could not determine retailer for URL", 0, ""))
             ELSE IF Head(targets).idx \in failed
             THEN fail_product(r, Head(targets), Msg("Capture failed. Last error", 0, ""))
             ELSE pass_product(r, Head(targets), ""),
             Tail(targets), failed)

\* process_all_products 267-272: selected link numbers with no captured pair
RECURSIVE MissingReport(_, _)
MissingReport(r, missing) ==
    IF missing = {} THEN r
    ELSE MissingReport(
             fail_product(r, [idx |-> Nth(missing, 1), retailer |-> "selected_missing"],
                          Msg("No valid PNG/TXT files for index", 0, "")),
             missing \ {Nth(missing, 1)})

\* process_all_products 320-333 for every product: Passed when the text written has
\* one line per schema field, Failed otherwise
RECURSIVE AnalysisReport(_, _, _)
AnalysisReport(r, files, written) ==
    IF files = <<>> THEN r
    ELSE AnalysisReport(
             IF LineCount(written[Head(files)]) # Len(expected_fields)
             THEN fail_product(r, Head(files),
                               Msg("Output line count mismatch",
                                   LineCount(written[Head(files)]), ""))
             ELSE pass_product(r, Head(files), ""),
             Tail(files), written)

---------------------------------------------------------------------------
(* Reconciler: the table (core/csv_processor.py) *)

RowLink(row) == Strip(row["Link"])

\* csv.DictReader rows completed to the schema: {field: row.get(field, "")}
CompleteRow(row) == [f \in Fields |-> IF f \in DOMAIN row THEN row[f] ELSE <<>>]

ReadRows(file) == [i \in 1..Len(Content(file)) |-> CompleteRow(Content(file)[i])]

\* variant: the index keyed by the Link cell as stored, without strip()
IndexOfRaw(rows) ==
    [l \in {rows[i]["Link"] : i \in {j \in 1..Len(rows) : rows[j]["Link"] # <<>>}} |->
        CHOOSE i \in 1..Len(rows) :
            /\ rows[i]["Link"] = l
            /\ \A j \in (i + 1)..Len(rows) : rows[j]["Link"] # l]

\* link -> the last row that carries it; rows with an empty Link are not indexed
IndexOf(rows) ==
    [l \in {RowLink(rows[i]) : i \in {j \in 1..Len(rows) : RowLink(rows[j]) # <<>>}} |->
        CHOOSE i \in 1..Len(rows) :
            /\ RowLink(rows[i]) = l
            /\ \A j \in (i + 1)..Len(rows) : RowLink(rows[j]) # l]

Loaded(rows) == [data |-> rows, index |-> IndexOf(rows)]

\* _load_existing_csv: (existing_data, url_to_row_index)
_load_existing_csv(file, readRaises) ==
    IF ~Exists(file) \/ readRaises
    THEN [data |-> <<>>, index |-> <<>>]
    ELSE Loaded(ReadRows(file))

\* parsed_data.get(field, default)
Get(rec, field, default) == IF field \in DOMAIN rec THEN rec[field] ELSE default

\* variant: an update that keeps the old value where the record has none
UpdateRowPatch(row, parsed_data) ==
    [f \in Fields |->
        IF Get(parsed_data, f, <<>>) # <<>> THEN parsed_data[f]
        ELSE IF f \in DOMAIN row THEN row[f] ELSE <<>>]

\* lines 235-243: every schema field of the row from the parsed record
UpdateRow(row, parsed_data) ==
    [f \in Fields |->
        IF f \in DOMAIN row THEN Get(parsed_data, f, row[f]) ELSE Get(parsed_data, f, <<>>)]

\* line 247
NewRow(parsed_data) == [f \in Fields |-> Get(parsed_data, f, <<>>)]

\* variant: every record appended, none matched against the index
UpsertAppendOnly(data, index, parsed_data) ==
    LET link_url == Strip(Get(parsed_data, "Link", <<>>))
    IN  [data  |-> Append(data, NewRow(parsed_data)),
         index |-> IF link_url = <<>> THEN index
                   ELSE Merge(index, [l \in {link_url} |-> Len(data) + 1]),
         kind  |-> IF link_url = <<>> THEN "append_empty" ELSE "append",
         row   |-> Len(data) + 1]

\* variant: a record without Link dropped instead of appended
UpsertSkipEmpty(data, index, parsed_data) ==
    LET link_url == Strip(Get(parsed_data, "Link", <<>>))
    IN  IF link_url = <<>>
        THEN [data |-> data, index |-> index, kind |-> "append_empty", row |-> Len(data) + 1]
        ELSE IF link_url \in DOMAIN index
        THEN [data  |-> [data EXCEPT ![index[link_url]] = UpdateRow(@, parsed_data)],
              index |-> index, kind |-> "update", row |-> index[link_url]]
        ELSE [data  |-> Append(data, NewRow(parsed_data)),
              index |-> Merge(index, [l \in {link_url} |-> Len(data) + 1]),
              kind  |-> "append", row |-> Len(data) + 1]

\* variant: a new Link is indexed with the length of the table before the append
UpsertIndexBeforeAppend(data, index, parsed_data) ==
    LET link_url == Strip(Get(parsed_data, "Link", <<>>))
    IN  IF link_url = <<>>
        THEN [data |-> Append(data, parsed_data), index |-> index, kind |-> "append_empty",
              row |-> Len(data) + 1]
        ELSE IF link_url \in DOMAIN index
        THEN [data  |-> [data EXCEPT ![index[link_url]] = UpdateRow(@, parsed_data)],
              index |-> index, kind |-> "update", row |-> index[link_url]]
        ELSE [data  |-> Append(data, NewRow(parsed_data)),
              index |-> Merge(index, [l \in {link_url} |-> Len(data)]),
              kind  |-> "append", row |-> Len(data) + 1]

\* lines 224-251: one parsed record merged into (data, index)
Upsert(data, index, parsed_data) ==
    LET link_url == Strip(Get(parsed_data, "Link", <<>>))
    IN  IF link_url = <<>>
        THEN [data |-> Append(data, parsed_data), index |-> index, kind |-> "append_empty",
              row |-> Len(data) + 1]
        ELSE IF link_url \in DOMAIN index
        THEN [data  |-> [data EXCEPT ![index[link_url]] = UpdateRow(@, parsed_data)],
              index |-> index, kind |-> "update", row |-> index[link_url]]
        ELSE [data  |-> Append(data, NewRow(parsed_data)),
              index |-> Merge(index, [l \in {link_url} |-> Len(data) + 1]),
              kind  |-> "append", row |-> Len(data) + 1]

\* analysis files of the selection, sorted by link number; the sort is stable, so files
\* of one link number stay in directory order
Rank(id) == CHOOSE r \in 1..Len(listing) : listing[r] = id.retailer

Before(a, b) == a.idx < b.idx \/ (a.idx = b.idx /\ Rank(a) < Rank(b))

RECURSIVE SortFiles(_)
SortFiles(ids) ==
    IF ids = {} THEN <<>>
    ELSE LET first == CHOOSE a \in ids : \A b \in ids \ {a} : Before(a, b)
         IN  <<first>> \o SortFiles(ids \ {first})

FilesToProcess(dir, sel) ==
    SortFiles({id \in DOMAIN dir : sel = {} \/ id.idx \in sel})

\* variant: the analysis takes every captured product, selection or not
ProductFilesUnselected(arts, sel) == SortFiles(DOMAIN arts)

\* process_all_products 245-290: the captured products of the selection (all of them
\* without one), sorted by link number
ProductFilesToProcess(arts, sel) ==
    SortFiles({id \in DOMAIN arts : sel = {} \/ id.idx \in sel})

---------------------------------------------------------------------------
(* Inputs *)

\* LLM replies
ReplyDrill ==
    << Mark("Link"), SP, Text(UrlWrong), NL,
       Mark("Category"), SP, Text("Tools"), NL,
       Mark("Retailer"), SP, Text("Amazon"), NL,
       Mark("Title Actual"), SP, Text("Drill") >>

\* preamble, fields out of schema order, an unknown field, a field name in another case
ReplySaw ==
    << Text("Here is the audit."), NL,
       Mark("Title Accuracy?"), SP, Text("Yes"), NL,
       Mark("Price"), SP, Text("5"), NL,
       Mark("title  actual"), SP, Text("Saw") >>

\* a value that spans two lines
ReplyTwoLines ==
    << Mark("Title Actual"), SP, Text("Drill"), NL, Text("20V"), NL,
       Mark("Category"), SP, Text("Tools") >>

\* a marker whose name the look-ahead class does not admit, on a line of its own
ReplyOddName ==
    << Mark("Category"), SP, Text("Tools"), NL,
       XMark("Title - Actual"), SP, Text("Drill") >>

ErrorOneLine  == <<Text("429 quota exceeded")>>
ErrorTwoLines == <<Text("API call failed. No text."), NL, Text("Full Response: {}")>>

\* a row of an earlier table
OldRow(link, category, title) ==
    [EmptyRecord EXCEPT !["Link"] = link, !["Category"] = category, !["Title Actual"] = title]

\* tables left by earlier runs (TableOld edited by hand: a padded Link, a row without Link)
TableOld ==
    << OldRow(<<Text(UrlY)>>, <<Text("Ladders")>>, <<Text("Ladder")>>),
       OldRow(<<Text(UrlX), SP>>, <<Text("Hand tools")>>, <<Text("Hammer")>>),
       OldRow(<<>>, <<>>, <<Text("Orphan")>>) >>

TableDup ==
    << OldRow(<<Text(UrlX)>>, <<>>, <<Text("First")>>),
       OldRow(<<Text(UrlX)>>, <<>>, <<Text("Second")>>) >>

InitialCsv == {NoFile, File(TableOld), File(TableDup)}

\* the I/O operations that raise in one run
FaultSets ==
    { {}, {"read"}, {"missing"}, {"parse"}, {"unreadable"}, {"backup"}, {"write"}, {"snapshot"},
      {"write", "restore"}, {"backup", "write"} }

Selections == {{}, {1}, {2}}

InputLinks == IF inputFile = "links.txt" THEN linksTxt ELSE otherTxt

---------------------------------------------------------------------------
(* process_all_analyses, step by step *)

NoOp == [kind |-> "none", row |-> 0, id |-> [idx |-> 0, retailer |-> ""]]

NoRun == [any |-> FALSE, clean |-> FALSE, sel |-> {}, nEmpty |-> 0]

\* what is kept of the run before: whether it ran without I/O failure and, if so, its
\* selection and the number of records without Link it read
PrevRun ==
    IF faults = {} /\ runs > 0
    THEN [any |-> TRUE, clean |-> TRUE, sel |-> selected_indices, nEmpty |-> hist.nEmpty]
    ELSE [any |-> runs > 0, clean |-> FALSE, sel |-> {}, nEmpty |-> 0]

NoHist ==
    [pre |-> NoFile, nUpdate |-> 0, nAppend |-> 0, nEmpty |-> 0, last |-> NoOp,
     bakMade |-> FALSE,
     wrote |-> FALSE, prev |-> NoRun]

\* csv.DictWriter(fieldnames=expected_fields, extrasaction='ignore').writerows
\* no phase has run in this invocation
NoTrail ==
    [phase |-> "none", sel |-> {}, order |-> <<>>, outcome |-> <<>>,
     artifacts |-> <<>>, analysis |-> <<>>, calls |-> <<>>]

\* no capture invocation is running
NoCap ==
    [pc |-> "off", retries |-> 0, sel |-> {}, links |-> <<>>, i |-> 0,
     id |-> StepKey(""), attempt |-> 0, success |-> FALSE, last_error |-> NoMsg,
     step |-> "", cause |-> "", live |-> FALSE, png |-> FALSE, txt |-> FALSE,
     details_opened |-> FALSE, ret |-> "none", calls |-> <<>>, slept |-> {},
     fresh |-> {}]

\* no image file
NoImage == [w |-> 0, h |-> 0, kind |-> "none"]

\* a whole PNG of w by h pixels
Image(w, h) == [w |-> w, h |-> h, kind |-> "png"]

\* take_full_page_screenshot is not running
NoShot ==
    [pc |-> "idle", total_width |-> 0, total_height |-> 0,
     viewport_width |-> 0, viewport_height |-> 0, offset |-> 0,
     stitched_image |-> NoImage, file |-> NoImage, ret |-> "none",
     tiers |-> <<>>, raised |-> {}]

\* _find_and_expand_details is not running
NoFinder ==
    [pc |-> "idle", impl |-> "", page |-> [total_height |-> 0, matches |-> <<>>],
     total_height |-> 0, current_position |-> 0, scroll_attempts |-> 0,
     found_details_button |-> FALSE, details_button |-> "", rounds |-> 0,
     round_at |-> 0, scrolled |-> {}, evaluated |-> {}, clicked |-> {}, ret |-> "none"]

\* the snapshot file name: f"{base_csv_name}{selection_tag}_{timestamp}.csv"
SnapshotName(sel, now) == [selection_tag |-> sel, timestamp |-> now]

WriteRows(data) == [i \in 1..Len(data) |-> CompleteRow(data[i])]

\* lines 161-203: load the table, list and select the analysis files, sort them
StartRun(sel, f) ==
    /\ pc = "idle" \/ (pc = "csv" /\ sel = selected_indices)
    /\ runs < MaxRuns
    /\ runs' = runs + 1
    /\ f # {} => faultyRuns < MaxFaultyRuns
    /\ faultyRuns' = IF f # {} THEN faultyRuns + 1 ELSE faultyRuns
    /\ selected_indices' = sel
    /\ faults' = f
    /\ url_map' = _load_urls_from_file(InputLinks)
    /\ \E ld \in {_load_existing_csv(csvFile, "read" \in f)},
          files \in {FilesToProcess(analysis, sel)} :
           /\ existing_data' = ld.data
           /\ url_to_row_index' = ld.index
           /\ files_to_process' = files
           /\ pc' = IF files = <<>> THEN "idle" ELSE "merge"
           /\ result' = IF files = <<>> THEN "true" ELSE "none"
           /\ hist' = [NoHist EXCEPT
                          !.pre = csvFile,
                          !.prev = PrevRun]
    /\ processed_files_count' = 0
    /\ report' = IF pc = "csv" THEN report ELSE <<>>
    /\ trail' = NoTrail
    /\ UNCHANGED <<fileVars, inputFile, artifacts, analysis, listing, csvFile, bakFile, phases,
                   snapVars, captureVars>>

\* lines 212-251: one analysis file.  A file that is gone gives no record (138-140).
\* A file that cannot be read raises before base_product_id is bound (97, 102), so
\* the handler at 141-152 raises in its turn at 145 and the exception leaves
\* process_all_analyses.
ProcessFile ==
    /\ pc = "merge"
    /\ files_to_process # <<>>
    /\ files_to_process' = Tail(files_to_process)
    /\ pc' = IF "unreadable" \in faults THEN "idle" ELSE pc
    /\ result' = IF "unreadable" \in faults THEN "raised" ELSE result
    /\ LET id == Head(files_to_process) IN
       IF "missing" \in faults \/ "unreadable" \in faults
       THEN UNCHANGED <<existing_data, url_to_row_index, processed_files_count, hist>>
       ELSE \E parsed_data \in {IF "parse" \in faults
                                THEN ParseFallback(id, url_map)
                                ELSE _parse_analysis_file(analysis[id], id, url_map)} :
            \E u \in {Upsert(existing_data, url_to_row_index, parsed_data)} :
                /\ existing_data' = u.data
                /\ url_to_row_index' = u.index
                /\ processed_files_count' = processed_files_count + 1
                /\ hist' = [hist EXCEPT
                               !.last = [kind |-> u.kind, row |-> u.row, id |-> id],
                               !.nUpdate = IF u.kind = "update" THEN @ + 1 ELSE @,
                               !.nAppend = IF u.kind = "append" THEN @ + 1 ELSE @,
                               !.nEmpty  = IF u.kind = "append_empty" THEN @ + 1 ELSE @]
    /\ UNCHANGED <<fileVars, inputFile, artifacts, analysis, listing, csvFile, bakFile,
                   url_map, selected_indices, faults, runs, faultyRuns, phases,
                   report, snapVars, captureVars, trail>>

\* variant: an except branch that leaves the files as the failed step left them
RestoreNever(c, b) == [csv |-> c, bak |-> b]

\* lines 284-290: the except branch; c and b are the files as the failed step left them
RestoreFromBackup(c, b) ==
    IF Exists(b) /\ "restore" \notin faults
    THEN [csv |-> b, bak |-> NoFile]
    ELSE [csv |-> c, bak |-> b]

\* lines 253-290: back up, write, snapshot; restore when any of it raises
WriteCsv ==
    /\ pc = "merge"
    /\ files_to_process = <<>>
    /\ pc' = "idle"
    /\ IF processed_files_count = 0
       THEN /\ result' = "true"
            /\ UNCHANGED <<csvFile, bakFile, hist, report, snapshots>>
       ELSE \E made \in {Exists(csvFile) /\ "backup" \notin faults} :
            \E bak1 \in {IF made THEN csvFile ELSE bakFile} :
                IF "write" \in faults
                THEN \E partial \in {csvFile, File(<<>>)} :
                     \E r \in {RestoreFromBackup(partial, bak1)} :
                        /\ csvFile' = r.csv
                        /\ bakFile' = r.bak
                        /\ result' = "false"
                        /\ hist' = [hist EXCEPT !.bakMade = made]
                        /\ report' = fail_product(report, StepKey("CSV Write Error"),
                                                  Msg("Failed to write CSV", 0, "write"))
                        /\ UNCHANGED snapshots
                ELSE IF "snapshot" \in faults
                THEN \E r \in {RestoreFromBackup(File(WriteRows(existing_data)), bak1)} :
                        /\ csvFile' = r.csv
                        /\ bakFile' = r.bak
                        /\ result' = "false"
                        /\ hist' = [hist EXCEPT !.bakMade = made]
                        /\ report' = fail_product(report, StepKey("CSV Write Error"),
                                                  Msg("Failed to write CSV", 0, "snapshot"))
                        /\ UNCHANGED snapshots
                ELSE /\ csvFile' = File(WriteRows(existing_data))
                     /\ bakFile' = bak1
                     /\ result' = "true"
                     /\ hist' = [hist EXCEPT !.bakMade = made, !.wrote = TRUE]
                     /\ snapshots' = Merge(snapshots,
                                           [n \in {SnapshotName(selected_indices, clock)} |->
                                               WriteRows(existing_data)])
                     /\ UNCHANGED report
    /\ UNCHANGED <<fileVars, inputFile, artifacts, analysis, listing, url_map,
                   existing_data, url_to_row_index, files_to_process,
                   processed_files_count, selected_indices, faults, runs, faultyRuns, phases,
                   clock, captureVars, trail>>

---------------------------------------------------------------------------
(* Specification of the reconciler: the output folder holds what a capture *)
(* phase and an analysis phase left there.                                 *)

LinkConfigs ==
    { [links |-> File(<<UrlX, UrlY>>),     other |-> NoFile,            input |-> "links.txt"],
      [links |-> File(<<UrlX, "", UrlY>>), other |-> NoFile,            input |-> "links.txt"],
      [links |-> File(<<UrlX, UrlY>>),     other |-> File(<<"", UrlY>>), input |-> "other.txt"] }

\* what the LLM call gave for link1, link2, ...
OutcomeLists ==
    { <<Reply(ReplyDrill), Reply(ReplySaw)>>,
      <<Raises(ErrorOneLine), Reply(ReplyDrill)>> }

Analysed(arts, outcome, umap) ==
    [id \in DOMAIN arts |-> process_product(outcome[id.idx], id, umap)]

\* os.listdir order matters only among the files of one link number
ListingOrders(ids) ==
    IF \E a, b \in ids : a # b /\ a.idx = b.idx
    THEN {<<"homedepot", "lowes">>, <<"lowes", "homedepot">>}
    ELSE {<<"homedepot", "lowes">>}

Init ==
    /\ \E cfg \in LinkConfigs :
          /\ linksTxt = cfg.links
          /\ otherTxt = cfg.other
          /\ inputFile = cfg.input
    /\ artifacts = Captured(Content(InputLinks), {})
    /\ \E outcome \in OutcomeLists :
          analysis = Analysed(artifacts, outcome, GeminiLoadUrls(linksTxt, InputLinks))
    /\ listing \in ListingOrders(DOMAIN analysis)
    /\ csvFile \in InitialCsv
    /\ bakFile = NoFile
    /\ pc = "idle"
    /\ url_map = <<>>
    /\ existing_data = <<>>
    /\ url_to_row_index = <<>>
    /\ files_to_process = <<>>
    /\ processed_files_count = 0
    /\ selected_indices = {}
    /\ faults = {}
    /\ result = "none"
    /\ runs = 0
    /\ faultyRuns = 0
    /\ phases = 0
    /\ hist = NoHist
    /\ report = <<>>
    /\ clock = 0
    /\ snapshots = <<>>
    /\ sessions = 0
    /\ cap = NoCap
    /\ shot = NoShot
    /\ finder = NoFinder
    /\ trail = NoTrail

Next ==
    \/ \E sel \in Selections, f \in FaultSets : StartRun(sel, f)
    \/ ProcessFile
    \/ WriteCsv

Spec == Init /\ [][Next]_vars

---------------------------------------------------------------------------
(* Specification of the pipeline: capture phases, analysis phases (each followed *)
(* by the CSV step of the same invocation) and CSV-only invocations, on one      *)
(* output folder (main.py).                                                      *)

PipelineConfigs ==
    LinkConfigs \cup
    { [links |-> File(<<UrlX, UrlY>>), other |-> File(<<UrlY>>), input |-> "other.txt"],
      [links |-> NoFile,               other |-> File(<<UrlY>>), input |-> "other.txt"] }

PipelineOutcomes ==
    { <<Reply(ReplyDrill), Reply(ReplySaw)>>,
      <<Reply(ReplyTwoLines), Raises(ErrorTwoLines)>>,
      <<Reply(ReplyOddName), Raises(ErrorOneLine)>> }

\* link numbers whose capture fails on every attempt
CaptureFailures == {{}, {1}}

\* main.py 77-164: a capture invocation over the input list
CapturePhase(sel, failed) ==
    /\ pc = "idle"
    /\ phases < MaxPhases
    /\ phases' = phases + 1
    /\ Exists(InputLinks)
    /\ \E done \in {Captured(Content(InputLinks), sel)},
          targets \in {CaptureTargets(Content(InputLinks), sel)} :
          /\ artifacts' = [id \in {d \in DOMAIN artifacts \cup DOMAIN done :
                                      ~(d \in DOMAIN done /\ d.idx \in failed)} |->
                              IF id \in DOMAIN done THEN done[id] ELSE artifacts[id]]
          /\ report' = CaptureReport(<<>>, targets, failed)
          /\ trail' = [NoTrail EXCEPT !.phase = "capture", !.sel = sel, !.order = targets,
                                      !.artifacts = artifacts, !.analysis = analysis]
    /\ UNCHANGED <<fileVars, inputFile, analysis, listing, csvFile, bakFile, runVars,
                   selected_indices, snapVars, captureVars>>

\* main.py 167-180 and process_all_products: every captured product of the selection
\* analysed and its analysis file written; the CSV step of the invocation follows
AnalysisPhase(sel, outcome) ==
    /\ pc = "idle"
    /\ phases < MaxPhases
    /\ runs < MaxRuns
    /\ phases' = phases + 1
    /\ \E files \in {ProductFilesToProcess(artifacts, sel)} :
       \E written \in {Analysed([id \in {files[k] : k \in 1..Len(files)} |-> artifacts[id]],
                                 outcome, GeminiLoadUrls(linksTxt, InputLinks))} :
          /\ analysis' = Merge(analysis, written)
          /\ report' = AnalysisReport(
                           MissingReport(<<>>, sel \ {files[k].idx : k \in 1..Len(files)}),
                           files, written)
          /\ trail' = [NoTrail EXCEPT !.phase = "analysis", !.sel = sel, !.order = files,
                                      !.outcome = outcome, !.artifacts = artifacts,
                                      !.analysis = analysis]
    /\ selected_indices' = sel
    /\ pc' = "csv"
    /\ UNCHANGED <<fileVars, inputFile, artifacts, listing, csvFile, bakFile, url_map,
                   existing_data, url_to_row_index, files_to_process,
                   processed_files_count, faults, result, runs, faultyRuns, hist,
                   snapVars, captureVars>>

InitPipeline ==
    /\ \E cfg \in PipelineConfigs :
          /\ linksTxt = cfg.links
          /\ otherTxt = cfg.other
          /\ inputFile = cfg.input
    /\ artifacts = <<>>
    /\ analysis = <<>>
    /\ listing = <<"homedepot", "lowes">>
    /\ csvFile = NoFile
    /\ bakFile = NoFile
    /\ pc = "idle"
    /\ url_map = <<>>
    /\ existing_data = <<>>
    /\ url_to_row_index = <<>>
    /\ files_to_process = <<>>
    /\ processed_files_count = 0
    /\ selected_indices = {}
    /\ faults = {}
    /\ result = "none"
    /\ runs = 0
    /\ faultyRuns = 0
    /\ phases = 0
    /\ hist = NoHist
    /\ report = <<>>
    /\ clock = 0
    /\ snapshots = <<>>
    /\ sessions = 0
    /\ cap = NoCap
    /\ shot = NoShot
    /\ finder = NoFinder
    /\ trail = NoTrail

NextPipeline ==
    \/ \E sel \in Selections, failed \in CaptureFailures : CapturePhase(sel, failed)
    \/ \E sel \in Selections, outcome \in PipelineOutcomes : AnalysisPhase(sel, outcome)
    \/ \E sel \in Selections : StartRun(sel, {})
    \/ ProcessFile
    \/ WriteCsv

SpecPipeline == InitPipeline /\ [][NextPipeline]_vars

---------------------------------------------------------------------------
(* Properties of the reconciler *)

\* the rows of a table file; no file, no rows
Rows(f) == IF Exists(f) THEN Content(f) ELSE <<>>

\* the table the run in progress (or the last run) loaded
LoadedRows == _load_existing_csv(hist.pre, "read" \in faults).data

\* no two rows share a non-empty trimmed Link
Unique(rows) ==
    \A i, j \in 1..Len(rows) :
        (i # j /\ RowLink(rows[i]) # <<>>) => RowLink(rows[i]) # RowLink(rows[j])

EmptyLinkRows(rows) == Cardinality({i \in 1..Len(rows) : RowLink(rows[i]) = <<>>})

\* the last run returned, and it and the run before it ran without I/O failure on the
\* same selection, every record with a non-empty Link
SecondOfTwoRuns ==
    /\ pc = "idle"
    /\ hist.prev.any
    /\ hist.prev.clean /\ faults = {}
    /\ hist.prev.sel = selected_indices
    /\ hist.prev.nEmpty = 0 /\ hist.nEmpty = 0

\* C1: running process_all_analyses twice on the same analysis files, each with a
\* non-empty Link, leaves the table after the second run equal to the table after the
\* first: same rows, same order, same value in every field.
C1_Idempotent == SecondOfTwoRuns => csvFile = hist.pre

C1_Witness ==
    /\ SecondOfTwoRuns
    /\ hist.wrote
    /\ hist.nUpdate >= 2
    /\ Len(Rows(csvFile)) >= 2

\* C2: a run that loads a table in which no two rows share a non-empty trimmed Link
\* keeps that so in the table in memory at every step, and in the file it writes.
C2_UniqueLinks ==
    (runs > 0 /\ Unique(LoadedRows)) =>
        /\ Unique(existing_data)
        /\ (pc = "idle" /\ hist.wrote) => Unique(Rows(csvFile))

C2_Witness ==
    /\ pc = "idle" /\ hist.wrote
    /\ LoadedRows # <<>> /\ Unique(LoadedRows)
    /\ hist.nUpdate >= 1 /\ hist.nAppend >= 1
    /\ Len(Rows(csvFile)) > Len(LoadedRows)

\* the URLs the selected positions have in the input list
SelectedUrls == {<<Text(url_map[i])>> : i \in selected_indices \cap DOMAIN url_map}

\* C3: after a run with a selection, every row whose Link is not a selected URL is as
\* it was before the run and at the same position, and the row count is unchanged
\* when every selected URL already had a row.
C3_SelectionFrame ==
    (pc = "idle" /\ runs > 0 /\ selected_indices # {} /\ faults = {}) =>
        LET pre == Rows(hist.pre)
            post == Rows(csvFile)
        IN  /\ Len(post) >= Len(pre)
            /\ \A p \in 1..Len(pre) :
                   RowLink(pre[p]) \notin SelectedUrls => post[p] = pre[p]
            /\ (\A u \in SelectedUrls : \E p \in 1..Len(pre) : RowLink(pre[p]) = u)
                   => Len(post) = Len(pre)

\* C4: a run that writes the table loses no row: every row of the table before the
\* run is in the table after it at the same position, unchanged or updated in place
\* under the same Link.
C4_NoRowLost ==
    (pc = "idle" /\ hist.wrote) =>
        LET pre == Rows(hist.pre)
            post == Rows(csvFile)
        IN  /\ Len(post) >= Len(pre)
            /\ \A p \in 1..Len(pre) :
                   \/ post[p] = pre[p]
                   \/ RowLink(pre[p]) # <<>> /\ RowLink(post[p]) = RowLink(pre[p])

\* the name/value pairs in the analysis file the last step merged
LastPairs == FoundValues(FindAll(analysis[hist.last.id]))

\* the record the last step merged, from those pairs or from the except branch
LastRecord(d) ==
    IF "parse" \in faults THEN ParseFallback(hist.last.id, url_map)
    ELSE ParsedData(d, hist.last.id, url_map)

\* the fields the analysis file of the last step has a marker for
LastFound(d) == IF "parse" \in faults THEN {} ELSE {f \in Fields : FieldFound(d, f)}

\* an update step has just been taken
UpdateStep == pc = "merge" /\ hist.last.kind = "update"

C6_EmptyLinkAppended ==
    /\ (hist.last.kind = "append_empty") =>
          /\ hist.last.row \in DOMAIN existing_data
          /\ hist.last.row > Len(LoadedRows)
          /\ RowLink(existing_data[hist.last.row]) = <<>>
    /\ (pc = "idle" /\ hist.wrote /\ faults = {}) =>
          /\ EmptyLinkRows(Rows(csvFile)) = EmptyLinkRows(Rows(hist.pre)) + hist.nEmpty
          /\ Len(Rows(csvFile)) = Len(Rows(hist.pre)) + hist.nEmpty + hist.nAppend

C6_Witness ==
    /\ pc = "idle" /\ hist.wrote /\ faults = {}
    /\ hist.prev.any /\ hist.prev.clean /\ hist.prev.sel = selected_indices
    /\ hist.prev.nEmpty = 1 /\ hist.nEmpty = 1
    /\ EmptyLinkRows(Rows(csvFile)) >= 2
    /\ Rows(csvFile)[Len(Rows(csvFile))] = Rows(csvFile)[Len(Rows(csvFile)) - 1]

\* a run whose write raised after the .bak copy was made
WriteFailedAfterBackup ==
    pc = "idle" /\ result = "false" /\ "write" \in faults /\ hist.bakMade

\* C7 as stated: when the write fails after the .bak copy was made, the canonical
\* file has its pre-run content when the run returns.
C7_RestoredOnWriteFailure == WriteFailedAfterBackup => csvFile = hist.pre

\* C7: when the write fails after the .bak copy was made, the canonical file has its
\* pre-run content when the run returns, provided moving the .bak back does not fail
\* too; when it does, the .bak file still has the pre-run content.
C7_RestoredUnlessRestoreFails ==
    WriteFailedAfterBackup =>
        IF "restore" \in faults THEN bakFile = hist.pre ELSE csvFile = hist.pre

C7_Witness ==
    /\ WriteFailedAfterBackup
    /\ "restore" \notin faults
    /\ Exists(hist.pre) /\ csvFile = hist.pre
    /\ WriteRows(existing_data) # Rows(hist.pre)

---------------------------------------------------------------------------
(* Properties of the pipeline *)

\* the Link value written in a formatted record: what follows the Link marker on its line
RecordLink(text) ==
    LET ls   == Lines(text)
        hits == {i \in 1..Len(ls) : Len(ls[i]) >= 1 /\ ls[i][1] = Mark("Link")}
    IN  IF hits = {} THEN <<>>
        ELSE Strip(SubSeq(ls[Min(hits)], 2, Len(ls[Min(hits)])))

\* the URL at index i of the input list of the run, i taken from the artifact name:
\* counted over the non-blank lines as the capture counts, or over all lines
InputUrl(id) ==
    {<<Text(artifacts[id])>>} \cup
    (IF id.idx \in DOMAIN LoadUrls(InputLinks)
     THEN {<<Text(LoadUrls(InputLinks)[id.idx])>>} ELSE {<<>>})

\* C8: the Link of every formatted record and of every reconciled row is the URL at
\* index i of the input list given to the run, i parsed from the artifact name, also
\* when that list is not links.txt.
C8_LinkFromInputList ==
    /\ \A id \in DOMAIN analysis : RecordLink(analysis[id]) \in InputUrl(id)
    /\ (hist.last.kind # "none") =>
          RowLink(existing_data[hist.last.row]) \in InputUrl(hist.last.id)

\* C9: the index that names a URL's artifacts in the capture is the index under which
\* the formatter and the reconciler find that URL, blank lines in the list or not.
C9_SameIndex ==
    \A id \in DOMAIN artifacts :
        /\ \A rc \in {_load_urls_from_file(InputLinks)} :
              id.idx \in DOMAIN rc /\ rc[id.idx] = artifacts[id]
        /\ (inputFile = "links.txt") =>
              \A fm \in {GeminiLoadUrls(linksTxt, InputLinks)} :
                  id.idx \in DOMAIN fm /\ fm[id.idx] = artifacts[id]

\* C10: every analysis file written has exactly one line per schema field, in schema
\* order, each line the field's marker, a space and the value.
C10_OneLinePerField ==
    \A id \in DOMAIN analysis : \A ls \in {Lines(analysis[id])} :
        /\ Len(ls) = Len(expected_fields)
        /\ \A i \in 1..Len(ls) :
              /\ i \in 1..Len(expected_fields)
              /\ Len(ls[i]) >= 2
              /\ ls[i][1] = Mark(expected_fields[i])
              /\ ls[i][2] = SP

---------------------------------------------------------------------------
(* Specification of the capture: one invocation followed step by step through  *)
(* the loop over the targets, the retry loop and capture_product_data          *)
(* (main.py, retailers/homedepot.py, retailers/lowes.py).                      *)

captureFrame == <<fileVars, inputFile, analysis, listing, csvFile, bakFile, runVars, browserVars,
                  selected_indices, snapVars, trail>>

\* the link lists of the capture
CaptureLists == { <<UrlX, UrlZ, UrlY>>, <<UrlZ, UrlX>>, <<UrlRef, UrlYRef>> }

\* the folder after a step on the files of product id: the product is a usable
\* artifact when both its image and its text file are there
OnDisk(arts, id, url, png, txt) ==
    [x \in (DOMAIN arts \ {id}) \cup (IF png /\ txt THEN {id} ELSE {}) |->
        IF x = id THEN url ELSE arts[x]]

\* main.py 89-90: the next index the loop does not skip, 0 when the list is exhausted
NextIndex(i, n, sel) ==
    LET rest == {j \in (i + 1)..n : sel = {} \/ j \in sel}
    IN  IF rest = {} THEN 0 ELSE Nth(rest, 1)

\* main.py 146-150: whether the loop waits after item i of n
remaining_links_to_process(i, n, sel) ==
    IF sel # {} THEN \E sel_idx \in sel : sel_idx > i ELSE i < n

\* the selections given to the capture: one of them names an index beyond every list
CaptureSelections == Selections \cup {{1, 4}}

\* variant: the retry loop without the break
MayRetryAfterSuccess(attempt, retries, success) == attempt < retries

\* main.py 119, 124-127: for attempt in range(args.retries), left by break on success
MayRetry(attempt, retries, success) == attempt < retries /\ ~success

\* variant: an exception of the auditor ends the loop over the targets
LoopAbortOnRaise(ret) == IF ret = "raised" THEN "done" ELSE "attempt"

\* main.py 120-140: the try/except inside the retry loop; whatever the call did, the
\* loop goes on
LoopAfter(ret) == "attempt"

\* variant: an except branch that leaves the session as it is
ReleaseNever(n, live) == n

\* homedepot.py 155, lowes.py 125: if driver: driver.quit()
ReleaseOnExcept(n, live) == IF live THEN n - 1 ELSE n

\* variant: an except branch that removes the image only
CleanupImageOnly(png, txt) == [png |-> FALSE, txt |-> txt]

\* homedepot.py 156-157, lowes.py 126-127: both files removed when they exist
Cleanup(png, txt) == [png |-> FALSE, txt |-> FALSE]

\* the steps of capture_product_data in order, per retailer
StepAfter(retailer, step) ==
    CASE step = "navigate"   -> IF retailer = "homedepot" THEN "details" ELSE "screenshot"
      [] step = "details"    -> "screenshot"
      [] step = "screenshot" -> "text"
      [] step = "text"       -> IF retailer = "homedepot" THEN "crop" ELSE "quit"
      [] step = "crop"       -> "quit"

\* main.py 123, 135: last_error after an attempt
LastError(ret, attempt) ==
    CASE ret = "success" -> NoMsg
      [] ret = "failure" -> Msg("Error during capture", attempt, "")
      [] ret = "raised"  -> Msg("Critical error during capture attempt", attempt, "")

\* main.py 77-88: the invocation reads the list
CaptureStart(sel, retries) ==
    /\ pc = "idle"
    /\ cap.pc \in {"off", "done"}
    /\ phases < MaxCaptures
    /\ phases' = phases + 1
    /\ Exists(InputLinks)
    /\ report' = <<>>
    /\ \E links \in {NonBlank(Content(InputLinks))} :
          cap' = [NoCap EXCEPT !.pc = "next", !.retries = retries, !.sel = sel,
                               !.links = links,
                               !.calls = [i \in 1..Len(links) |-> 0]]
    /\ UNCHANGED <<captureFrame, artifacts, sessions>>

\* main.py 89-118: the loop takes the next target; an unknown retailer is recorded
\* Failed and the loop continues
NextTarget ==
    /\ cap.pc = "next"
    /\ \E i \in {NextIndex(cap.i, Len(cap.links), cap.sel)} :
          /\ i # 0
          /\ \E retailer \in {detect_retailer(cap.links[i])} :
                IF retailer = "None"
                THEN /\ report' = fail_product(report, [idx |-> i, retailer |-> "unknown"],
                                               Msg("Could not determine retailer for URL", 0, ""))
                     /\ cap' = [cap EXCEPT !.i = i,
                                           !.id = [idx |-> i, retailer |-> "unknown"],
                                           !.attempt = 0, !.success = FALSE,
                                           !.last_error = NoMsg, !.ret = "none",
                                           !.step = "", !.cause = "",
                                           !.png = FALSE, !.txt = FALSE,
                                           !.details_opened = FALSE]
                ELSE /\ UNCHANGED report
                     /\ \E id \in {[idx |-> i, retailer |-> retailer]} :
                           cap' = [cap EXCEPT !.pc = "attempt", !.i = i, !.id = id,
                                              !.attempt = 0, !.success = FALSE,
                                              !.last_error = Msg("Capture not attempted.", 0, ""),
                                              !.ret = "none", !.step = "", !.cause = "",
                                              !.png = id \in DOMAIN artifacts,
                                              !.txt = id \in DOMAIN artifacts,
                                              !.details_opened = FALSE]
    /\ UNCHANGED <<captureFrame, phases, artifacts, sessions>>

\* main.py 156-158: the list is exhausted
CaptureEnd ==
    /\ cap.pc = "next"
    /\ NextIndex(cap.i, Len(cap.links), cap.sel) = 0
    /\ cap' = [cap EXCEPT !.pc = "done"]
    /\ UNCHANGED <<captureFrame, phases, artifacts, sessions, report>>

\* main.py 119-122 and homedepot.py 125-127, lowes.py 99-101: an attempt calls
\* capture_product_data, which sets up the browser; setup_browser may raise
Attempt ==
    /\ cap.pc = "attempt"
    /\ MayRetry(cap.attempt, cap.retries, cap.success)
    /\ \E up \in BOOLEAN :
          /\ cap' = [cap EXCEPT !.pc = "inside", !.attempt = @ + 1,
                                !.calls[cap.i] = @ + 1, !.live = up,
                                !.step = IF up THEN "navigate" ELSE "except",
                                !.cause = IF up THEN "" ELSE "setup",
                                !.ret = "none", !.details_opened = FALSE,
                                !.fresh = {}]
          /\ sessions' = IF up THEN sessions + 1 ELSE sessions
    /\ UNCHANGED <<captureFrame, phases, artifacts, report>>

\* homedepot.py 128-133, lowes.py 102-109: driver.get and the popups
Navigate ==
    /\ cap.pc = "inside" /\ cap.step = "navigate"
    /\ \E ok \in BOOLEAN :
          cap' = IF ok THEN [cap EXCEPT !.step = StepAfter(cap.id.retailer, "navigate")]
                 ELSE [cap EXCEPT !.step = "except", !.cause = "navigate"]
    /\ UNCHANGED <<captureFrame, phases, artifacts, sessions, report>>

\* homedepot.py 135-137: _find_and_expand_details returns whether the section was
\* opened, or raises at its first script call (line 47)
ExpandDetails ==
    /\ cap.pc = "inside" /\ cap.step = "details"
    /\ \E outcome \in {"opened", "not opened", "raises"} :
          cap' = IF outcome = "raises"
                 THEN [cap EXCEPT !.step = "except", !.cause = "details"]
                 ELSE [cap EXCEPT !.step = StepAfter(cap.id.retailer, "details"),
                                  !.details_opened = (outcome = "opened")]
    /\ UNCHANGED <<captureFrame, phases, artifacts, sessions, report>>

\* take_full_page_screenshot: the image is written, or the last fallback raises
\* (screenshot_manager.py 132), with or without a file left behind
Screenshot ==
    /\ cap.pc = "inside" /\ cap.step = "screenshot"
    /\ \E ok \in BOOLEAN, wrote \in BOOLEAN :
          /\ ok => wrote
          /\ cap' = IF ok
                    THEN [cap EXCEPT !.step = StepAfter(cap.id.retailer, "screenshot"),
                                     !.png = TRUE, !.fresh = @ \cup {"png"}]
                    ELSE [cap EXCEPT !.step = "except", !.cause = "screenshot",
                                     !.png = cap.png \/ wrote]
          /\ artifacts' = OnDisk(artifacts, cap.id, cap.links[cap.i], cap.png \/ wrote, cap.txt)
    /\ UNCHANGED <<captureFrame, phases, sessions, report>>

\* extract_page_text: the text is written, or an exception is caught inside
\* (screenshot_manager.py 159-161), with or without a file left behind
ExtractText ==
    /\ cap.pc = "inside" /\ cap.step = "text"
    /\ \E ok \in BOOLEAN, wrote \in BOOLEAN :
          /\ ok => wrote
          /\ cap' = [cap EXCEPT !.step = StepAfter(cap.id.retailer, "text"),
                                !.txt = cap.txt \/ wrote,
                                !.fresh = IF ok THEN @ \cup {"txt"} ELSE @]
          /\ artifacts' = OnDisk(artifacts, cap.id, cap.links[cap.i], cap.png, cap.txt \/ wrote)
    /\ UNCHANGED <<captureFrame, phases, sessions, report>>

\* homedepot.py 145-146: crop_screenshot catches its exceptions (image_utils.py 33-35)
Crop ==
    /\ cap.pc = "inside" /\ cap.step = "crop"
    /\ cap' = [cap EXCEPT !.step = StepAfter(cap.id.retailer, "crop")]
    /\ UNCHANGED <<captureFrame, phases, artifacts, sessions, report>>

\* homedepot.py 148-150, lowes.py 118-120: driver.quit(), then return True, ""
Quit ==
    /\ cap.pc = "inside" /\ cap.step = "quit"
    /\ sessions' = sessions - 1
    /\ \E ok \in BOOLEAN :
          cap' = IF ok THEN [cap EXCEPT !.pc = "returned", !.ret = "success", !.live = FALSE]
                 ELSE [cap EXCEPT !.step = "except", !.cause = "quit", !.live = FALSE]
    /\ UNCHANGED <<captureFrame, phases, artifacts, report>>

\* homedepot.py 152-158, lowes.py 122-128: quit the driver when there is one, remove
\* the image, remove the text, return False; each of the three may raise, and then
\* the call raises instead of returning
ExceptBranch ==
    /\ cap.pc = "inside" /\ cap.step = "except"
    /\ sessions' = IF cap.cause # "setup" THEN ReleaseOnExcept(sessions, cap.live)
                   ELSE sessions
    /\ \E outcome \in {"returns"}
                       \cup (IF cap.cause # "setup" THEN {"quit raises"} ELSE {})
                       \cup (IF cap.png THEN {"remove image raises"} ELSE {})
                       \cup (IF cap.txt THEN {"remove text raises"} ELSE {}) :
       \E left \in {IF outcome = "returns" THEN Cleanup(cap.png, cap.txt)
                     ELSE IF outcome = "remove text raises"
                          THEN [png |-> FALSE, txt |-> cap.txt]
                     ELSE [png |-> cap.png, txt |-> cap.txt]} :
          /\ cap' = [cap EXCEPT !.pc = "returned", !.live = FALSE,
                                !.ret = IF outcome = "returns" THEN "failure" ELSE "raised",
                                !.png = left.png, !.txt = left.txt]
          /\ artifacts' = OnDisk(artifacts, cap.id, cap.links[cap.i], left.png, left.txt)
    /\ UNCHANGED <<captureFrame, phases, report>>

\* main.py 122-140: the attempt is over: last_error, and on success the report and
\* the flag that ends the retry loop
AfterAttempt ==
    /\ cap.pc = "returned"
    /\ cap' = [cap EXCEPT !.pc = LoopAfter(cap.ret),
                          !.success = (cap.ret = "success"),
                          !.last_error = LastError(cap.ret, cap.attempt)]
    /\ report' = IF cap.ret = "success" THEN pass_product(report, cap.id, "") ELSE report
    /\ UNCHANGED <<captureFrame, phases, artifacts, sessions>>

\* main.py 142-154: after the retry loop: the Failed entry, then time.sleep when
\* remaining_links_to_process
Settle ==
    /\ cap.pc = "attempt"
    /\ ~MayRetry(cap.attempt, cap.retries, cap.success)
    /\ report' = IF cap.success THEN report
                 ELSE fail_product(report, cap.id,
                                   Msg("Capture failed. Last error: " \o cap.last_error.text,
                                       cap.last_error.at, ""))
    /\ cap' = [cap EXCEPT !.pc = "next",
                           !.slept = IF remaining_links_to_process(cap.i, Len(cap.links), cap.sel)
                                     THEN @ \cup {cap.i} ELSE @]
    /\ UNCHANGED <<captureFrame, phases, artifacts, sessions>>

InitCapture ==
    /\ \E links \in CaptureLists :
          /\ linksTxt = File(links)
          /\ artifacts \in {<<>>, Captured(links, {})}
    /\ otherTxt = NoFile
    /\ inputFile = "links.txt"
    /\ analysis = <<>>
    /\ listing = <<"homedepot", "lowes">>
    /\ csvFile = NoFile
    /\ bakFile = NoFile
    /\ pc = "idle"
    /\ url_map = <<>>
    /\ existing_data = <<>>
    /\ url_to_row_index = <<>>
    /\ files_to_process = <<>>
    /\ processed_files_count = 0
    /\ selected_indices = {}
    /\ faults = {}
    /\ result = "none"
    /\ runs = 0
    /\ faultyRuns = 0
    /\ phases = 0
    /\ hist = NoHist
    /\ report = <<>>
    /\ clock = 0
    /\ snapshots = <<>>
    /\ sessions = 0
    /\ cap = NoCap
    /\ shot = NoShot
    /\ finder = NoFinder
    /\ trail = NoTrail

NextCapture ==
    \/ \E sel \in CaptureSelections, retries \in 0..MaxRetries : CaptureStart(sel, retries)
    \/ NextTarget
    \/ CaptureEnd
    \/ Attempt
    \/ Navigate
    \/ ExpandDetails
    \/ Screenshot
    \/ ExtractText
    \/ Crop
    \/ Quit
    \/ ExceptBranch
    \/ AfterAttempt
    \/ Settle

SpecCapture == InitCapture /\ [][NextCapture]_vars

---------------------------------------------------------------------------
(* Specification of the snapshots: reconcile runs on one output folder while the *)
(* clock runs; a run reads the clock when it names its snapshot.                 *)

SnapshotFaults == {{}, {"snapshot"}}

\* a second passes
Tick ==
    /\ clock < MaxClock
    /\ clock' = clock + 1
    /\ UNCHANGED <<fileVars, inputFile, artifacts, analysis, listing, csvFile, bakFile,
                   runVars, selected_indices, phases, report, snapshots, captureVars, trail>>

NextSnapshot ==
    \/ \E sel \in Selections, f \in SnapshotFaults : StartRun(sel, f)
    \/ ProcessFile
    \/ WriteCsv
    \/ Tick

SpecSnapshot == Init /\ [][NextSnapshot]_vars

---------------------------------------------------------------------------
(* Specification of the screenshot chain: one call of take_full_page_screenshot *)
(* on a page, every driver and file call of it free to raise.                   *)

\* what a call on the browser leaves alone
browserFrame == <<fileVars, inputFile, artifacts, analysis, listing, csvFile, bakFile,
                  runVars, selected_indices, phases, report, snapVars, sessions, cap,
                  trail>>

\* the document sizes and the sizes of the browser window, in pixels
DocumentHeights == {250, 900}
DocumentWidths  == {800, 1200}
ViewportHeights == {100, 400}
ViewportWidths  == {800}

\* screenshot_manager.py 122
overlap == 100

\* the four capture methods, in the order of the nesting of their try blocks
Tiers == <<"cdp", "resize", "stitch", "bare">>

\* a file that open() or save() created before the write failed
Partial == [w |-> 0, h |-> 0, kind |-> "partial"]

\* the method after k: only the one after the first skips
NextTierSkipsResize(k) == IF k = 1 THEN 3 ELSE k + 1

\* lines 55-59, 78-82, 129-132: the except clause of method k holds method k + 1
NextTier(k) == k + 1

\* the canvas has the size of one viewport
StitchCanvasViewport(viewport_width, viewport_height, total_width, total_height) ==
    Image(viewport_width, viewport_height)

\* line 96: Image.new('RGB', (viewport_width, total_height))
StitchCanvas(viewport_width, viewport_height, total_width, total_height) ==
    Image(viewport_width, total_height)

\* method k raised: control enters the except clause that holds the next method
Fallback(k, left) ==
    \E n \in {NextTier(k)} :
        shot' = [shot EXCEPT !.pc = Tiers[n], !.tiers = Append(@, Tiers[n]),
                             !.raised = @ \cup {Tiers[k]}, !.file = left]

\* the call of take_full_page_screenshot(driver, output_filename)
ShotCall(tw, th) ==
    /\ shot.pc = "idle"
    /\ shot' = [shot EXCEPT !.pc = Tiers[1], !.tiers = <<Tiers[1]>>,
                            !.total_width = tw, !.total_height = th]
    /\ UNCHANGED <<browserFrame, finder>>

\* lines 18-57: the protocol-level capture of the whole content; a command or the
\* write raises, before or after open() has created the file
Cdp ==
    /\ shot.pc = "cdp"
    /\ \/ shot' = [shot EXCEPT !.pc = "returned", !.ret = "true",
                               !.file = Image(shot.total_width, shot.total_height)]
       \/ \E left \in {shot.file, Partial} : Fallback(1, left)
    /\ UNCHANGED <<browserFrame, finder>>

\* lines 59-80: the window takes the size of the document and save_screenshot writes
\* it; save_screenshot returns False on an IOError and the function returns True all
\* the same; a script or the driver raises
Resize ==
    /\ shot.pc = "resize"
    /\ \/ \E written \in {shot.file, Image(shot.total_width, shot.total_height)} :
             shot' = [shot EXCEPT !.pc = "returned", !.ret = "true", !.file = written]
       \/ Fallback(2, shot.file)
    /\ UNCHANGED <<browserFrame, finder>>

\* lines 82-99: the sizes are read and the canvas is made; the import or a script raises
Stitch ==
    /\ shot.pc = "stitch"
    /\ \/ \E vw \in ViewportWidths, vh \in ViewportHeights :
             shot' = [shot EXCEPT !.pc = "tile", !.viewport_width = vw,
                                  !.viewport_height = vh, !.offset = 0,
                                  !.stitched_image =
                                      StitchCanvas(vw, vh, shot.total_width, shot.total_height)]
       \/ Fallback(3, shot.file)
    /\ UNCHANGED <<browserFrame, finder>>

\* lines 121-123: offset += viewport_height - overlap
NextOffset(offset, viewport_height) == offset + viewport_height - overlap

\* lines 100-123: one round of the loop pastes the viewport at offset, cut to what
\* is left of the document, and moves down by the viewport less the overlap
Tile ==
    /\ shot.pc = "tile"
    /\ shot.offset < shot.total_height
    /\ \/ shot' = [shot EXCEPT !.offset = NextOffset(@, shot.viewport_height)]
       \/ Fallback(3, shot.file)
    /\ UNCHANGED <<browserFrame, finder>>

\* lines 125-128: the loop is over and the canvas is saved
Save ==
    /\ shot.pc = "tile"
    /\ ~(shot.offset < shot.total_height)
    /\ \/ shot' = [shot EXCEPT !.pc = "returned", !.ret = "true",
                               !.file = shot.stitched_image]
       \/ \E left \in {shot.file, Partial} : Fallback(3, left)
    /\ UNCHANGED <<browserFrame, finder>>

\* lines 129-134: the bare save_screenshot of the window as it is, inside the except
\* clause of the stitching and in no try block of its own: it writes the file, or
\* returns False on an IOError, and the function returns True; or it raises, and the
\* exception leaves the function
Bare ==
    /\ shot.pc = "bare"
    /\ \/ \E vw \in ViewportWidths, vh \in ViewportHeights :
          \E written \in {shot.file, Image(vw, vh)} :
             shot' = [shot EXCEPT !.pc = "returned", !.ret = "true", !.file = written]
       \/ shot' = [shot EXCEPT !.pc = "raised", !.raised = @ \cup {Tiers[4]}]
    /\ UNCHANGED <<browserFrame, finder>>

NextScreenshot ==
    \/ \E tw \in DocumentWidths, th \in DocumentHeights : ShotCall(tw, th)
    \/ Cdp
    \/ Resize
    \/ Stitch
    \/ Tile
    \/ Save
    \/ Bare

InitBrowser ==
    /\ InitCapture
    /\ linksTxt = File(<<UrlX, UrlZ, UrlY>>)
    /\ artifacts = <<>>

SpecScreenshot == InitBrowser /\ [][NextScreenshot]_vars

\* the function runs on: a round of the loop that raises nothing is taken, and so is
\* the step after the loop; no exception is ever bound to come
\* (a round that leaves the offset where it was changes no variable: a run of such
\* rounds without end is a behaviour that stutters in the loop for ever)
SpecScreenshotFair ==
    /\ SpecScreenshot
    /\ WF_vars(Tile /\ shot'.pc = "tile")
    /\ WF_vars(Save)

---------------------------------------------------------------------------
(* Specification of the detail-section locator: one call of                    *)
(* HomeDepotAuditor._find_and_expand_details (retailers/homedepot.py) or of    *)
(* find_product_details_button (details_finder.py) on a page, round by round.  *)

\* homedepot.py 51, details_finder.py 22
max_scroll_attempts == 20

\* homedepot.py 64, details_finder.py 42
scroll_increment == 300

Locators == {"homedepot", "details_finder"}

\* len(detail_selectors)
NumSelectors(impl) == IF impl = "homedepot" THEN 7 ELSE 12

\* an element of the page: its tag, the scroll position from which it is displayed,
\* the terms its lower-cased text contains, and whether is_displayed() raises on it
Element(name, tag, from, terms) ==
    [name |-> name, tag |-> tag, from |-> from, terms |-> terms, stale |-> FALSE]

Stale(name) == [name |-> name, tag |-> "button", from |-> 0, terms |-> {}, stale |-> TRUE]

DetailsButton(name, from) == Element(name, "button", from, {"product details", "detail"})
AddToList(name)           == Element(name, "button", 0, {"add to", "list"})
ShowMore(name)            == Element(name, "button", 0, {})

\* a page: its scroll height and, for some selectors, the elements find_elements gives
Page(total_height, matches) == [total_height |-> total_height, matches |-> matches]

Match(selector, elements) == [selector |-> selector, elements |-> elements]

Pages ==
    { Page(0,    <<>>),
      Page(500,  <<>>),
      Page(7000, <<>>),
      Page(500,  <<Match(2, <<DetailsButton("details", 0)>>)>>),
      Page(7000, <<Match(1, <<DetailsButton("lazy", 600)>>)>>),
      Page(7000, <<Match(3, <<AddToList("addto"), DetailsButton("details", 0)>>)>>),
      Page(7000, <<Match(3, <<AddToList("addto")>>)>>),
      Page(500,  <<Match(5, <<ShowMore("more")>>), Match(6, <<DetailsButton("link", 0)>>)>>),
      Page(500,  <<Match(2, <<DetailsButton("first", 0)>>), Match(7, <<DetailsButton("second", 0)>>)>>),
      Page(500,  <<Match(1, <<Stale("gone"), DetailsButton("behind", 0)>>)>>) }

\* driver.find_elements(By.XPATH, selector)
find_elements(page, selector) ==
    IF \E m \in 1..Len(page.matches) : page.matches[m].selector = selector
    THEN page.matches[CHOOSE m \in 1..Len(page.matches) :
                          page.matches[m].selector = selector].elements
    ELSE <<>>

\* homedepot.py 76, details_finder.py 54
HasExclusionTerm(element) == element.terms \cap {"add to", "cart", "list"} # {}

\* homedepot.py 78-79: the element is the div or seems like a details expander
SeemsExpander(element) ==
    \/ element.tag = "div" /\ "product details" \in element.terms
    \/ element.terms \cap {"detail", "spec", "view more"} # {}

\* homedepot.py 72-79, details_finder.py 51-54: the tests an element has to pass
Passes(impl, element, position) ==
    /\ element.from <= position
    /\ ~HasExclusionTerm(element)
    /\ impl = "homedepot" => SeemsExpander(element)

\* the loop over the elements of one selector: the first that passes, none ("") when
\* none passes or is_displayed raises before one passes (except: continue)
RECURSIVE FirstPassing(_, _, _)
FirstPassing(impl, elements, position) ==
    IF elements = <<>> \/ Head(elements).stale THEN ""
    ELSE IF Passes(impl, Head(elements), position) THEN Head(elements).name
    ELSE FirstPassing(impl, Tail(elements), position)

\* homedepot.py 84-86: both loops are left at the first match; details_finder.py 59:
\* only the loop over the elements is left, and the loop over the selectors goes on
SelectorOfMatch(impl, hits) == IF impl = "homedepot" THEN Min(hits) ELSE Max(hits)

\* one round of the search: the name of the element taken, "" when there is none
EvaluateRound(impl, page, position) ==
    LET hits == {k \in 1..NumSelectors(impl) :
                    FirstPassing(impl, find_elements(page, k), position) # ""}
    IN  IF hits = {} THEN ""
        ELSE FirstPassing(impl, find_elements(page, SelectorOfMatch(impl, hits)), position)

\* variant: the search goes on while the page has not ended, whatever the attempts
MayScrollNoBudget(found, attempts, position, total_height) ==
    ~found /\ position < total_height

\* homedepot.py 67, details_finder.py 44: the condition of the while loop
MayScroll(found, attempts, position, total_height) ==
    ~found /\ attempts < max_scroll_attempts /\ position < total_height

\* homedepot.py 94: current_position += scroll_increment; details_finder.py 68-72
\* also cuts it to the page height
NextPosition(impl, position, total_height) ==
    IF impl = "details_finder" /\ position + scroll_increment > total_height
    THEN total_height
    ELSE position + scroll_increment

\* homedepot.py 95: scrollTo(0, min(current_position, total_height))
ScrollTarget(position, total_height) ==
    IF position < total_height THEN position ELSE total_height

\* the call: the page height is read by a script, which may raise (homedepot.py 47,
\* details_finder.py 16)
LocatorCall(impl, page) ==
    /\ finder.pc = "idle"
    /\ \/ finder' = [NoFinder EXCEPT !.pc = "loop", !.impl = impl, !.page = page,
                                     !.total_height = page.total_height]
       \/ finder' = [NoFinder EXCEPT !.pc = "raised", !.impl = impl, !.page = page]
    /\ UNCHANGED <<browserFrame, shot>>

\* homedepot.py 68-91, details_finder.py 46-64: one round over the selectors
Round ==
    /\ finder.pc = "loop"
    /\ MayScroll(finder.found_details_button, finder.scroll_attempts,
                 finder.current_position, finder.total_height)
    /\ \E taken \in {EvaluateRound(finder.impl, finder.page, finder.current_position)} :
          finder' = [finder EXCEPT !.pc = IF taken # "" THEN "after" ELSE "scroll",
                                   !.found_details_button = taken # "",
                                   !.details_button = taken,
                                   !.rounds = @ + 1,
                                   !.round_at = finder.current_position,
                                   !.evaluated = @ \cup {ScrollTarget(finder.current_position,
                                                                       finder.total_height)}]
    /\ UNCHANGED <<browserFrame, shot>>

\* homedepot.py 93-96, details_finder.py 67-79: the scroll after a round without a
\* match; the script may raise
Scroll ==
    /\ finder.pc = "scroll"
    /\ \E position \in {NextPosition(finder.impl, finder.current_position,
                                     finder.total_height)} :
          \/ finder' = [finder EXCEPT !.pc = "loop",
                                      !.scroll_attempts = @ + 1,
                                      !.current_position = position,
                                      !.scrolled = @ \cup {ScrollTarget(position,
                                                                        finder.total_height)}]
          \/ finder' = [finder EXCEPT !.pc = "raised",
                                      !.scroll_attempts = @ + 1,
                                      !.current_position = position]
    /\ UNCHANGED <<browserFrame, shot>>

\* the while loop ends without a match
LoopExit ==
    /\ finder.pc = "loop"
    /\ ~MayScroll(finder.found_details_button, finder.scroll_attempts,
                  finder.current_position, finder.total_height)
    /\ finder' = [finder EXCEPT !.pc = "after"]
    /\ UNCHANGED <<browserFrame, shot>>

\* homedepot.py 98-117: the element found is scrolled into view and clicked by a
\* script, and the call returns True, or False when that raised; without an element
\* the call returns False.  details_finder.py 81: the flag is returned.
Activate ==
    /\ finder.pc = "after"
    /\ IF finder.found_details_button /\ finder.impl = "homedepot"
       THEN \/ finder' = [finder EXCEPT !.pc = "returned", !.ret = "true",
                                        !.clicked = @ \cup {finder.details_button}]
            \/ \E body \in SUBSET {"body"} :
                  finder' = [finder EXCEPT !.pc = "returned", !.ret = "false",
                                           !.clicked = @ \cup body]
       ELSE finder' = [finder EXCEPT !.pc = "returned",
                                     !.ret = IF finder.found_details_button
                                             THEN "true" ELSE "false"]
    /\ UNCHANGED <<browserFrame, shot>>

NextLocator ==
    \/ \E impl \in Locators, page \in Pages : LocatorCall(impl, page)
    \/ Round
    \/ Scroll
    \/ LoopExit
    \/ Activate

SpecLocator == InitBrowser /\ [][NextLocator]_vars

\* the program is one thread: a step that can be taken is taken
SpecLocatorFair == SpecLocator /\ WF_vars(NextLocator)

---------------------------------------------------------------------------
(* Specification of the directory listing: invocations on one output folder  *)
(* between which the user edits links.txt; the artifacts and analysis files  *)
(* of the earlier list stay in the folder, and os.listdir gives the files of *)
(* one link number in either order.                                          *)

\* the lists the user gives to the invocations: the second has the two URLs exchanged
EditedLists == {File(<<UrlX, UrlY>>), File(<<UrlY, UrlX>>)}

\* main.py 84-85: the list is read anew by every invocation; between two of them the
\* user has put another list there
EditLinks ==
    /\ pc = "idle"
    /\ linksTxt' \in EditedLists \ {linksTxt}
    /\ UNCHANGED <<otherTxt, inputFile, artifacts, analysis, listing, csvFile, bakFile,
                   runVars, selected_indices, phases, report, snapVars, captureVars, trail>>

\* csv_processor.py 170: os.listdir returns the files in arbitrary order
Relist ==
    /\ pc \in {"idle", "csv"}
    /\ listing' \in ListingOrders(DOMAIN analysis) \ {listing}
    /\ UNCHANGED <<fileVars, inputFile, artifacts, analysis, csvFile, bakFile,
                   runVars, selected_indices, phases, report, snapVars, captureVars, trail>>

InitListing ==
    /\ InitPipeline
    /\ linksTxt = File(<<UrlX, UrlY>>)
    /\ inputFile = "links.txt"

NextListing ==
    \/ CapturePhase({}, {})
    \/ \E outcome \in PipelineOutcomes : AnalysisPhase({}, outcome)
    \/ \E sel \in Selections : StartRun(sel, {})
    \/ ProcessFile
    \/ WriteCsv
    \/ EditLinks
    \/ Relist

SpecListing == InitListing /\ [][NextListing]_vars

---------------------------------------------------------------------------
(* Specification of the report: the calls the phases make on the one           *)
(* AuditReport of an invocation, taken one by one in any order.                *)

ReportKeys == {[idx |-> 1, retailer |-> "homedepot"], [idx |-> 2, retailer |-> "lowes"]}

\* link_processor.py 209 and 211: a pass with the qualifier, and one without
Qualifiers == {"", "missing Product Details"}

ReportErrors == {Msg("Capture failed. Last error: ", 1, "navigate")}

\* a call on the report, as the properties remember it
Call(op, k, arg) == [op |-> op, k |-> k, arg |-> arg]

ReportFrame ==
    <<fileVars, inputFile, artifacts, analysis, listing, csvFile, bakFile, runVars,
      selected_indices, phases, snapVars, captureVars>>

\* reporting_utils.py 23-33: the start time is kept, which only the duration printed
\* by the next pass or fail reads
StartProduct(k) ==
    /\ Len(trail.calls) < MaxCalls
    /\ trail' = [trail EXCEPT !.calls = Append(@, Call("start", k, ""))]
    /\ UNCHANGED <<ReportFrame, report>>

\* reporting_utils.py 35-54
PassProduct(k, details) ==
    /\ Len(trail.calls) < MaxCalls
    /\ report' = pass_product(report, k, details)
    /\ trail' = [trail EXCEPT !.calls = Append(@, Call("pass", k, details))]
    /\ UNCHANGED ReportFrame

\* reporting_utils.py 56-72
FailProduct(k, error_message) ==
    /\ Len(trail.calls) < MaxCalls
    /\ report' = fail_product(report, k, error_message)
    /\ trail' = [trail EXCEPT !.calls = Append(@, Call("fail", k, error_message))]
    /\ UNCHANGED ReportFrame

\* reporting_utils.py 97-106: the line of the summary for one product: the status,
\* with the error for a Failed one and the qualifier, when there is one, otherwise
print_summary(r) ==
    [k \in DOMAIN r |->
        IF r[k].status = "Failed"
        THEN [status |-> r[k].status, error |-> r[k].error, details |-> ""]
        ELSE [status |-> r[k].status, error |-> NoMsg, details |-> r[k].details]]

InitReport ==
    /\ InitPipeline
    /\ linksTxt = File(<<UrlX, UrlY>>)
    /\ otherTxt = NoFile

NextReport ==
    \/ \E k \in ReportKeys : StartProduct(k)
    \/ \E k \in ReportKeys, details \in Qualifiers : PassProduct(k, details)
    \/ \E k \in ReportKeys, error_message \in ReportErrors : FailProduct(k, error_message)

SpecReport == InitReport /\ [][NextReport]_vars

---------------------------------------------------------------------------
(* Properties of the analysis phase *)

\* the products of the analysis phase just run for which the LLM call raised
UpstreamFailures ==
    IF trail.phase = "analysis"
    THEN {trail.order[k] : k \in {j \in 1..Len(trail.order) :
                                     ~trail.outcome[trail.order[j].idx].ok}}
    ELSE {}

\* value ends with the text msg
Carries(value, msg) ==
    /\ Len(value) >= Len(msg)
    /\ SubSeq(value, Len(value) - Len(msg) + 1, Len(value)) = msg

\* C11: on an upstream failure inside process_product the record returned has every
\* schema field empty except Link (the URL from the link list), Retailer (the display
\* label) and the description-accuracy field, which carries the error message.
C11_FallbackRecord ==
    \A id \in UpstreamFailures :
        \A d \in {FoundValues(FindAll(analysis[id]))} :
            /\ FieldValue(d, "Link") \in InputUrl(id) \ {<<>>}
            /\ FieldValue(d, "Retailer") = <<Text(retailer_display_name(id.retailer))>>
            /\ Carries(FieldValue(d, "Description Accuracy?"), trail.outcome[id.idx].text)
            /\ \A f \in Fields \ {"Link", "Retailer", "Description Accuracy?"} :
                  FieldValue(d, f) = <<>>

\* C12: when the LLM call throws for a product during the analysis phase, an analysis
\* file for that product is still written with exactly the schema's number of lines
\* and its Link populated, and the report marks that product Failed.
C12_ThrowMarkedFailed ==
    \A id \in UpstreamFailures :
        /\ id \in DOMAIN analysis
        /\ LineCount(analysis[id]) = Len(expected_fields)
        /\ RecordLink(analysis[id]) # <<>>
        /\ EntryOf(report, id).status = "Failed"

---------------------------------------------------------------------------
(* Properties of the selection *)

\* the files of folder now whose link number is outside sel are those of folder before
SameOutside(before, now, sel) ==
    \A id \in DOMAIN before \cup DOMAIN now :
        id.idx \notin sel =>
            id \in DOMAIN before /\ id \in DOMAIN now /\ before[id] = now[id]

\* C19: with a selection, the capture phase and the analysis phase process exactly the
\* targets whose link number is in the selection, in ascending order of link number, and
\* create, overwrite or delete no image, text or analysis file of another link number.
C19_SelectionOnly ==
    (trail.phase # "none" /\ trail.sel # {}) =>
        /\ \A a, b \in 1..Len(trail.order) :
              a < b => trail.order[a].idx <= trail.order[b].idx
        /\ trail.phase = "capture" =>
              {trail.order[k].idx : k \in 1..Len(trail.order)}
                  = trail.sel \cap (1..Len(NonBlank(Content(InputLinks))))
        /\ trail.phase = "analysis" =>
              {trail.order[k] : k \in 1..Len(trail.order)}
                  = {id \in DOMAIN trail.artifacts : id.idx \in trail.sel}
        /\ SameOutside(trail.artifacts, artifacts, trail.sel)
        /\ SameOutside(trail.analysis, analysis, trail.sel)

\* an analysis phase with a selection ran over a folder that holds the image, text and
\* analysis file of a link number outside the selection, and analysed a product
C19_Witness ==
    /\ trail.phase = "analysis"
    /\ trail.sel # {}
    /\ trail.order # <<>>
    /\ \E id \in DOMAIN trail.analysis \cap DOMAIN trail.artifacts : id.idx \notin trail.sel
    /\ \E id \in DOMAIN trail.analysis : id.idx \in trail.sel /\ analysis[id] # trail.analysis[id]

---------------------------------------------------------------------------
(* Properties of the snapshots *)

\* the run just finished wrote the table and left a snapshot of it under a name that
\* embeds its selection
SnapshotMade ==
    \E n \in DOMAIN snapshots :
        /\ n.selection_tag = selected_indices
        /\ snapshots[n] = Content(csvFile)

\* every snapshot is still there with the content it had
SnapshotsKept ==
    \A n \in DOMAIN snapshots : n \in DOMAIN snapshots' /\ snapshots'[n] = snapshots[n]

\* C20: every reconcile run that writes the table creates a snapshot whose name embeds
\* the selection, and no snapshot written by an earlier run is overwritten or modified
\* by a later run, also when the later run has the same selection and starts within
\* the same clock second.
C20_SnapshotsNeverOverwritten ==
    /\ []((pc = "idle" /\ hist.wrote) => SnapshotMade)
    /\ [][SnapshotsKept]_vars

---------------------------------------------------------------------------
(* Properties of the capture *)

\* the loop has taken a target with a resolved retailer
Resolved == cap.i > 0 /\ cap.id.retailer # "unknown"

\* the retry loop of the current target is over
Settled == cap.pc \in {"next", "done"}

\* the message the last attempt of the current target ended with
LastAttemptMessage ==
    Msg("Capture failed. Last error: " \o
            (IF cap.ret = "failure" THEN "Error during capture"
             ELSE "Critical error during capture attempt"),
        cap.calls[cap.i], "")

RetriesBounded ==
    /\ \A i \in DOMAIN cap.calls : cap.calls[i] <= cap.retries
    /\ (Resolved /\ Settled /\ ~cap.success) =>
          /\ cap.calls[cap.i] = cap.retries
          /\ EntryOf(report, cap.id).status = "Failed"
          /\ cap.calls[cap.i] > 0 => EntryOf(report, cap.id).error = LastAttemptMessage

\* once an attempt has succeeded, the target gets no further call (the first disjunct
\* is the start of another invocation)
NoCallAfterSuccess ==
    cap.success =>
        \/ cap'.pc = "next" /\ cap'.i = 0
        \/ cap'.calls[cap.i] = cap.calls[cap.i]

\* C13: for each target with a resolved retailer, capture_product_data is invoked at
\* most retries times, no further attempt is made after the first successful one, and
\* when every attempt fails, by returning failure or by raising, the item is recorded
\* Failed with the error message of the last attempt.
C13_RetryLoop == []RetriesBounded /\ [][NoCallAfterSuccess]_vars

\* a target failed on both of two attempts, the last of them by raising
C13_Witness ==
    /\ Resolved /\ Settled /\ ~cap.success
    /\ cap.retries = 2
    /\ cap.ret = "raised"
    /\ EntryOf(report, cap.id).error.at = 2

\* the URL names no known retailer
UnknownRetailer(url) == ~Contains(url, "homedepot.com") /\ ~Contains(url, "lowes.com")

\* C14: a target whose URL matches no known retailer is recorded Failed at once: no
\* auditor is invoked for it, no attempt is made, and the loop goes on to the next
\* target.
C14_UnknownFailsAtOnce ==
    \A i \in DOMAIN cap.calls :
        (i <= cap.i /\ (cap.sel = {} \/ i \in cap.sel) /\ UnknownRetailer(cap.links[i])) =>
            /\ EntryOf(report, [idx |-> i, retailer |-> "unknown"]).status = "Failed"
            /\ cap.calls[i] = 0
            /\ i = cap.i => Settled

\* a target of unknown retailer was passed over and a later target is being captured
C14_Witness ==
    \E i \in DOMAIN cap.calls :
        /\ UnknownRetailer(cap.links[i])
        /\ i < cap.i
        /\ cap.calls[cap.i] > 0
        /\ EntryOf(report, [idx |-> i, retailer |-> "unknown"]).status = "Failed"

\* C15: when a capture of a page with a product-details section succeeds, the item is
\* recorded Passed, with the qualifier "missing product details" when the section was
\* not opened and with no qualifier when it was.
C15_MissingDetailsQualifier ==
    (cap.success /\ cap.id.retailer = "homedepot") =>
        /\ EntryOf(report, cap.id).status = "Passed"
        /\ EntryOf(report, cap.id).details =
              IF cap.details_opened THEN "" ELSE "missing product details"

\* C16: at most one browser session is open at any time, and none is open outside
\* capture_product_data: every session is quit before the call returns or raises, so
\* none is open when the next attempt or the next target begins.
C16_OneSession ==
    /\ sessions \in {0, 1}
    /\ cap.pc # "inside" => sessions = 0

\* a call that had a session open has returned failure after a step raised
C16_Witness ==
    /\ cap.pc = "returned"
    /\ cap.ret = "failure"
    /\ cap.cause \in {"navigate", "details", "screenshot"}
    /\ sessions = 0

\* C17: whenever capture_product_data returns failure, neither the image nor the text
\* file of that product is on disk, whichever step raised.
C17_FailureLeavesNoFiles ==
    cap.ret = "failure" =>
        /\ ~cap.png
        /\ ~cap.txt
        /\ cap.id \notin DOMAIN artifacts

\* closing the session raised after both files were written, and the call returned
\* failure
C17_Witness ==
    /\ cap.pc = "returned"
    /\ cap.ret = "failure"
    /\ cap.cause = "quit"

\* C18: at the end of the capture phase every target of the selection (every target,
\* without a selection) has exactly one report entry, Passed or Failed, and every
\* target with a resolved retailer was attempted, whatever happened to the targets
\* before it.
C18_EveryTargetSettled ==
    cap.pc = "done" =>
        \A targets \in {CaptureTargets(cap.links, cap.sel)} :
            \A n \in 1..Len(targets) :
                /\ EntryOf(report, targets[n]).status \in {"Passed", "Failed"}
                /\ {k \in DOMAIN report : k.idx = targets[n].idx} = {targets[n]}
                /\ (targets[n].retailer # "unknown" /\ cap.retries > 0) =>
                      cap.calls[targets[n].idx] > 0

\* the phase ended; the auditor raised on the last attempt of the first target, the
\* second has no known retailer, and the third was captured
C18_Witness ==
    /\ cap.pc = "done"
    /\ cap.sel = {}
    /\ Len(cap.links) = 3
    /\ EntryOf(report, [idx |-> 1, retailer |-> "homedepot"]).error.text
          = "Capture failed. Last error: Critical error during capture attempt"
    /\ EntryOf(report, [idx |-> 2, retailer |-> "unknown"]).status = "Failed"
    /\ EntryOf(report, [idx |-> 3, retailer |-> "lowes"]).status = "Passed"

---------------------------------------------------------------------------
(* Properties of the formatter *)

\* the values a text gives for a field: what follows the field's marker, on every
\* line that begins with it
LineValues(text, field) ==
    LET ls == Lines(text)
    IN  {Strip(SubSeq(ls[i], 2, Len(ls[i]))) :
            i \in {j \in 1..Len(ls) : Len(ls[j]) >= 1 /\ ls[j][1] = Mark(field)}}

\* C21: the Retailer field of every formatted record, normal or fallback, is the
\* display label derived from the artifact name, whatever Retailer value the LLM
\* reply holds.
C21_RetailerFromName ==
    \A id \in {trail.order[k] : k \in {j \in 1..Len(trail.order) : trail.phase = "analysis"}} :
        LineValues(analysis[id], "Retailer")
            = {<<Text(IF id.retailer = "homedepot" THEN "Home Depot" ELSE "Lowes")>>}

\* a record was formatted from a reply that names another retailer
C21_Witness ==
    /\ trail.phase = "analysis"
    /\ \E k \in 1..Len(trail.order) :
          /\ trail.outcome[trail.order[k].idx].ok
          /\ \E v \in LineValues(trail.outcome[trail.order[k].idx].text, "Retailer") :
                v = <<Text("Amazon")>>

---------------------------------------------------------------------------
(* Properties of the retailer detection *)

\* the host of a URL
Host(url) ==
    CASE url \in {UrlX, UrlWrong} -> "www.homedepot.com"
      [] url \in {UrlY, UrlYRef}  -> "www.lowes.com"
      [] OTHER                    -> "www.example.com"

\* C22: the retailer of a target is resolved from the host of its URL alone: a URL on
\* another host is unresolved even when its path or query holds "homedepot.com" or
\* "lowes.com", and a URL on the Lowe's host resolves to lowes whatever its path or
\* query holds.
C22_RetailerFromHost ==
    cap.i > 0 =>
        cap.id.retailer =
            CASE Host(cap.links[cap.i]) = "www.homedepot.com" -> "homedepot"
              [] Host(cap.links[cap.i]) = "www.lowes.com"     -> "lowes"
              [] OTHER                                        -> "unknown"

---------------------------------------------------------------------------
(* The formatter's records read back by the reconciler *)

\* the records the analysis phase just run has written
JustWritten == {trail.order[k] : k \in {j \in 1..Len(trail.order) : trail.phase = "analysis"}}

\* the value the formatter wrote for a field other than Link
WrittenValue(outcome, id, field) ==
    IF field = "Retailer" THEN <<Text(retailer_display_name(id.retailer))>>
    ELSE IF outcome.ok THEN FieldValue(FoundValues(FindAll(outcome.text)), field)
    ELSE IF field = "Description Actual"
         THEN Strip(<<Text("ERROR PROCESSING:"), SP, Text("Error processing with Gemini API:"), SP>>
                    \o outcome.text)
    ELSE <<>>

\* the lines of a file with lines i and j exchanged
SwapLines(ls, i, j) ==
    [k \in 1..Len(ls) |-> IF k = i THEN ls[j] ELSE IF k = j THEN ls[i] ELSE ls[k]]

\* the lines of a file without line i
DropLine(ls, i) == SubSeq(ls, 1, i - 1) \o SubSeq(ls, i + 1, Len(ls))

\* what the reconciler reads from a text for the fields other than Link
ReadBack(text) ==
    [f \in Fields \ {"Link"} |-> _parse_analysis_file(text, StepKey(""), <<>>)[f]]

ReadsWhatWasWritten(id) ==
    \A back \in {ReadBack(analysis[id])} :
        \A f \in Fields \ {"Link"} :
            back[f] = WrittenValue(trail.outcome[id.idx], id, f)

OrderOfLinesIrrelevant(id) ==
    \A ls \in {Lines(analysis[id])} : \A back \in {ReadBack(analysis[id])} :
        \A i \in 1..(Len(ls) - 1) :
            ReadBack(Join(SwapLines(ls, i, i + 1))) = back

MissingLineReadsEmpty(id) ==
    \A ls \in {Lines(analysis[id])} :
        \A i \in {j \in 1..Len(ls) : /\ Len(ls[j]) >= 1
                                    /\ ls[j][1].k = "mark"
                                    /\ ls[j][1].v \in Fields \ {"Link"}} :
            ReadBack(Join(DropLine(ls, i)))[ls[i][1].v] = <<>>

\* C24: for every record the formatter has written, the reconciler reads back, for
\* each schema field other than Link, exactly the value the formatter wrote; the
\* result does not change when lines of the file change places; and a field whose
\* line is missing reads as empty.
C24_RoundTrip ==
    \A id \in JustWritten :
        /\ ReadsWhatWasWritten(id)
        /\ OrderOfLinesIrrelevant(id)
        /\ MissingLineReadsEmpty(id)

---------------------------------------------------------------------------
(* Properties of the screenshot chain *)

\* the call has returned from method t, the methods before it having raised
ReturnedFrom(t) ==
    /\ shot.pc = "returned"
    /\ shot.tiers[Len(shot.tiers)] = t
    /\ t \notin shot.raised

\* C23: when the protocol-level and the viewport-resize capture have both failed and
\* the tiled stitch writes the image, the height of the image is the full scroll
\* height of the document and its width is the width of the viewport.
C23_StitchedImageSize ==
    ReturnedFrom("stitch") =>
        /\ {"cdp", "resize"} \subseteq shot.raised
        /\ shot.file = Image(shot.viewport_width, shot.total_height)

C23_Witness ==
    /\ ReturnedFrom("stitch")
    /\ shot.total_height > 2 * shot.viewport_height
    /\ shot.total_width > shot.viewport_width
    /\ shot.offset >= shot.total_height

\* C25: the methods are tried in the order protocol-level capture, viewport-resize
\* capture, tiled stitch, bare screenshot: a method is tried only when the one before
\* it has raised, and none is tried after one has succeeded.
C25_TiersInOrder ==
    /\ Len(shot.tiers) <= Len(Tiers)
    /\ \A k \in 1..Len(shot.tiers) :
          /\ shot.tiers[k] = Tiers[k]
          /\ k < Len(shot.tiers) => shot.tiers[k] \in shot.raised
    /\ shot.pc = "returned" => shot.tiers[Len(shot.tiers)] \notin shot.raised

C25_Witness ==
    /\ shot.pc = "returned"
    /\ shot.tiers = Tiers
    /\ shot.raised = {"cdp", "resize", "stitch"}

\* C26: take_full_page_screenshot never raises, and it returns false exactly when
\* all four methods have failed.
C26_NeverRaises ==
    /\ shot.pc # "raised"
    /\ shot.pc = "returned" =>
          (shot.ret = "false" <=> shot.raised = {Tiers[k] : k \in 1..Len(Tiers)})

---------------------------------------------------------------------------
(* Properties of the loop over the targets *)

\* the items of the run that the loop has finished with
ItemsDone ==
    {i \in 1..Len(cap.links) :
        /\ cap.sel = {} \/ i \in cap.sel
        /\ i < cap.i \/ (i = cap.i /\ cap.pc \in {"next", "done"})}

\* C27: the delay between items follows an item exactly when a further item of the
\* run remains: none follows the last item processed, with or without a selection,
\* also when the selection names an index larger than the number of links.
C27_DelayOnlyBetweenItems ==
    \A i \in ItemsDone :
        i \in cap.slept <=> NextIndex(i, Len(cap.links), cap.sel) # 0

---------------------------------------------------------------------------
(* Properties of the detail-section locator *)

\* the places (selector, element) of the page whose element is displayed at the
\* position and has none of the exclusion terms in its text
Eligible(impl, page, position) ==
    {pl \in (1..NumSelectors(impl)) \X (1..2) :
        /\ pl[2] <= Len(find_elements(page, pl[1]))
        /\ \E element \in {find_elements(page, pl[1])[pl[2]]} :
              /\ ~element.stale
              /\ element.from <= position
              /\ ~HasExclusionTerm(element)}

\* C28: in every round the locator takes the first element, in the order of the
\* predicate list, that is displayed and whose text has none of the exclusion terms
\* "add to", "cart", "list"; it refuses a displayed match for no other reason, and a
\* match of a later predicate never replaces that of an earlier one.
C28_FirstVisibleMatch ==
    finder.rounds > 0 =>
        \A places \in {Eligible(finder.impl, finder.page, finder.round_at)} :
            IF places = {} THEN finder.details_button = ""
            ELSE \E first \in places :
                    /\ \A pl \in places :
                          first[1] < pl[1] \/ (first[1] = pl[1] /\ first[2] <= pl[2])
                    /\ finder.details_button
                           = find_elements(finder.page, first[1])[first[2]].name

LocatorDone == finder.pc \in {"returned", "raised"}

\* the rounds and the scrolls stay within the budget, no scroll goes beyond the page
WithinBudget ==
    /\ finder.rounds <= max_scroll_attempts
    /\ finder.scroll_attempts <= max_scroll_attempts
    /\ \A y \in finder.scrolled : y <= finder.total_height

\* the loop over, nothing found: the call returns False and has clicked nothing
NoMatchReturnsFalse ==
    finder.pc = "after" /\ ~finder.found_details_button =>
        /\ finder'.pc = "returned"
        /\ finder'.ret = "false"
        /\ finder'.clicked = {}

\* C29: the locator always terminates: at most 20 rounds and at most 20 scrolls, no
\* scroll to a position beyond the page height, and when the attempt budget or the
\* page end is reached with no match it returns false, without raising and without
\* a click.
C29_LocatorTerminates ==
    /\ []WithinBudget
    /\ [][NoMatchReturnsFalse]_vars
    /\ <>LocatorDone

C29_Witness ==
    /\ finder.pc = "returned"
    /\ finder.ret = "false"
    /\ finder.rounds = max_scroll_attempts
    /\ finder.scroll_attempts = max_scroll_attempts
    /\ finder.current_position < finder.total_height
    /\ finder.clicked = {}

---------------------------------------------------------------------------
(* Properties of the Link index *)

\* the positions of the rows the run has appended
AppendedRows ==
    (Len(existing_data) - (hist.nAppend + hist.nEmpty) + 1)..Len(existing_data)

\* C30: at every step of a reconcile run, every entry link -> i of url_to_row_index
\* names a row of the table whose trimmed Link is link, and every non-empty Link the
\* run has appended has an entry.
C30_IndexConsistent ==
    /\ \A link \in DOMAIN url_to_row_index :
          /\ url_to_row_index[link] \in 1..Len(existing_data)
          /\ RowLink(existing_data[url_to_row_index[link]]) = link
    /\ \A i \in AppendedRows :
          existing_data[i]["Link"] # <<>> =>
              RowLink(existing_data[i]) \in DOMAIN url_to_row_index

C30_Witness ==
    /\ pc = "merge"
    /\ hist.nAppend >= 1
    /\ hist.nUpdate >= 1
    /\ \E link \in DOMAIN url_to_row_index :
          /\ url_to_row_index[link] \in AppendedRows
          /\ \E other \in DOMAIN url_to_row_index :
                url_to_row_index[other] \notin AppendedRows

---------------------------------------------------------------------------
(* Properties of the write, the backup and the snapshot *)

\* a run that wrote the table and then failed to make the snapshot has returned
SnapshotFailedAfterWrite ==
    /\ pc = "idle" /\ result # "none"
    /\ processed_files_count > 0
    /\ "snapshot" \in faults /\ "write" \notin faults

\* C31: when the table was written, the canonical file holds the merged table when
\* the run returns, also when the archival folder or the snapshot copy then fails: a
\* snapshot failure never brings the pre-run content back.
C31_SnapshotFailureKeepsTable ==
    SnapshotFailedAfterWrite => csvFile = File(WriteRows(existing_data))

\* a run whose write raised has returned
WriteFailed == pc = "idle" /\ result = "false" /\ "write" \in faults

\* C32: what a failed write leaves at the canonical path is the content the file had
\* at the start of this run (restored, or never touched) or what the interrupted write
\* left there, never the content of a .bak file of an earlier run; a run that made no
\* backup restores nothing.
C32_NoStaleRestore ==
    WriteFailed => csvFile \in {hist.pre, File(<<>>)}

\* the run that has just returned had no file for its selection, or a failure on
\* every file it tried to read
NothingParsed ==
    \/ FilesToProcess(analysis, selected_indices) = <<>>
    \/ faults \cap {"missing", "parse", "unreadable"} # {}

\* C33: a run with no analysis file for the selection, no analysis file at all, or no
\* file that could be parsed returns true and leaves the canonical file, the .bak
\* file and the snapshot folder as they were.
C33_NothingParsedNothingChanged ==
    [][(pc' = "idle" /\ (pc # "idle" \/ runs' # runs) /\ NothingParsed')
          => /\ result' = "true"
             /\ UNCHANGED <<csvFile, bakFile, snapshots>>]_vars

---------------------------------------------------------------------------
(* Properties of the directory listing *)

\* the sort of lines 209-211 over a listing that gives the retailers in the given order
RECURSIVE SortFilesIn(_, _)
SortFilesIn(ids, order) ==
    IF ids = {} THEN <<>>
    ELSE LET first == CHOOSE a \in ids : \A b \in ids \ {a} :
                          \/ a.idx < b.idx
                          \/ a.idx = b.idx /\ order[1] = a.retailer
         IN  <<first>> \o SortFilesIn(ids \ {first}, order)

\* the table a run gives from the prior table and the files taken in the given order
RECURSIVE Reconciled(_, _, _)
Reconciled(data, index, files) ==
    IF files = <<>> THEN data
    ELSE LET u == Upsert(data, index,
                         _parse_analysis_file(analysis[Head(files)], Head(files), url_map))
         IN  Reconciled(u.data, u.index, Tail(files))

\* the table the last run would have written had the listing come in the given order
TableUnder(order) ==
    LET ld == _load_existing_csv(hist.pre, FALSE)
    IN  File(WriteRows(Reconciled(ld.data, ld.index,
                 SortFilesIn({id \in DOMAIN analysis :
                                 selected_indices = {} \/ id.idx \in selected_indices},
                             order))))

RunWrote == pc = "idle" /\ hist.wrote /\ faults = {}

\* C34: the table a run writes is the same for every order in which the directory
\* listing can return the analysis files, two files of one link number included.
C34_ListingOrderIrrelevant ==
    RunWrote => \A order \in ListingOrders(DOMAIN analysis) : csvFile = TableUnder(order)

---------------------------------------------------------------------------
(* Properties of what a successful capture leaves behind *)

\* capture_product_data has just returned True
CaptureSucceeded == cap.pc = "returned" /\ cap.ret = "success"

\* C35: capture_product_data returns success only if the image and the text of the
\* product were both written during that call; it never returns success after a
\* failed text extraction, and never leaves the text of an earlier run beside a new
\* image.
C35_SuccessMeansBothWritten ==
    CaptureSucceeded => cap.fresh = {"png", "txt"}

---------------------------------------------------------------------------
(* Properties of the stitching loop *)

\* C36: the stitching loop ends for every positive viewport height and document
\* height: the offset grows with every round, so the loop is left after finitely
\* many tiles.
C36_StitchLoopEnds ==
    (shot.pc = "tile") ~> (shot.pc # "tile")

---------------------------------------------------------------------------
(* Properties of the positions the locator looks at *)

\* the locator has returned without having found an element
ReturnedNotFound ==
    finder.pc = "returned" /\ finder.ret = "false" /\ ~finder.found_details_button

\* C37: before the locator returns without a match, it has run a round over the
\* selectors at every position it scrolled to, the last one included (the 20th
\* scroll, or the bottom of the page).
C37_EveryScrollEvaluated ==
    ReturnedNotFound => finder.scrolled \subseteq finder.evaluated

---------------------------------------------------------------------------
(* Properties of the summary *)

\* the pass and fail calls made for a product, in the order they were made
Outcomes(k) ==
    SelectSeq(trail.calls, LAMBDA c : c.k = k /\ c.op \in {"pass", "fail"})

\* the line of the summary that the given call, taken alone, asks for
LineFor(c) ==
    IF c.op = "fail"
    THEN [status |-> "Failed", error |-> c.arg, details |-> ""]
    ELSE [status |-> "Passed", error |-> NoMsg, details |-> c.arg]

\* C38: after any sequence of start, pass and fail calls, the summary shows for each
\* product the outcome of its last pass or fail call alone: Passed without a
\* qualifier when that call was a pass without one, whatever earlier calls carried,
\* and an error only when that call was a fail.
C38_SummaryShowsLastCall ==
    \A k \in ReportKeys :
        Outcomes(k) # <<>> =>
            /\ k \in DOMAIN report
            /\ print_summary(report)[k] = LineFor(Outcomes(k)[Len(Outcomes(k))])
====
